---------------------------- MODULE Spec2Model ----------------------------
(***************************************************************************)
(* Model of the HunyuanOCR coordinate utilities (ocr_utils.py), the web    *)
(* annotator and /api/ocr response builder (ocr_web_app.py) and the        *)
(* command-line annotation tool (test/draw_bookshelf_blocks.py).           *)
(*                                                                         *)
(* Python floats are IEEE-754 binary64 values.  They are modelled exactly: *)
(* a float is sign * mant * 2^exp with mant a natural number below         *)
(* 2^MantBits held as a little-endian sequence of limbs (TLC integers are  *)
(* 32 bits wide), and every arithmetic operation rounds its exact result   *)
(* to nearest, ties to even, as the hardware does.                         *)
(***************************************************************************)
EXTENDS Integers, Sequences, FiniteSets, TLC

(***************************************************************************)
(* Natural numbers of arbitrary size: little-endian limbs, no leading zero *)
(***************************************************************************)
LimbBits == 15
Base == 2^LimbBits

RECURSIVE BigNorm(_)
BigNorm(a) ==
  IF a = <<>> THEN <<>>
  ELSE IF a[Len(a)] = 0 THEN BigNorm(SubSeq(a, 1, Len(a) - 1))
  ELSE a

RECURSIVE BigFromNat(_)
BigFromNat(n) ==
  IF n = 0 THEN <<>> ELSE <<n % Base>> \o BigFromNat(n \div Base)

RECURSIVE BigToNat(_)
BigToNat(a) ==
  IF a = <<>> THEN 0 ELSE a[1] + Base * BigToNat(Tail(a))

RECURSIVE BigMulSmallC(_, _, _)
BigMulSmallC(a, s, carry) ==
  IF a = <<>> THEN BigFromNat(carry)
  ELSE LET t == a[1] * s + carry
       IN  <<t % Base>> \o BigMulSmallC(Tail(a), s, t \div Base)

BigMulSmall(a, s) == BigNorm(BigMulSmallC(a, s, 0))

RECURSIVE BigAddC(_, _, _)
BigAddC(a, b, carry) ==
  IF a = <<>> /\ b = <<>> THEN BigFromNat(carry)
  ELSE LET x == IF a = <<>> THEN 0 ELSE a[1]
           y == IF b = <<>> THEN 0 ELSE b[1]
           t == x + y + carry
       IN  <<t % Base>>
             \o BigAddC(IF a = <<>> THEN <<>> ELSE Tail(a),
                        IF b = <<>> THEN <<>> ELSE Tail(b), t \div Base)

BigAdd(a, b) == BigNorm(BigAddC(a, b, 0))

RECURSIVE BigMulRec(_, _)
BigMulRec(a, b) ==
  IF b = <<>> THEN <<>>
  ELSE BigAddC(BigMulSmallC(a, b[1], 0), <<0>> \o BigMulRec(a, Tail(b)), 0)

BigMul(a, b) == IF a = <<>> \/ b = <<>> THEN <<>> ELSE BigNorm(BigMulRec(a, b))

\* quotient and remainder of a by the small positive integer d (d < 2^16)
RECURSIVE BigDivRec(_, _)
BigDivRec(a, d) ==
  IF a = <<>> THEN [q |-> <<>>, r |-> 0]
  ELSE LET hi  == BigDivRec(Tail(a), d)
           cur == hi.r * Base + a[1]
       IN  [q |-> <<cur \div d>> \o hi.q, r |-> cur % d]

BigDivSmall(a, d) ==
  LET qr == BigDivRec(a, d) IN [q |-> BigNorm(qr.q), r |-> qr.r]

RECURSIVE BitLenSmall(_)
BitLenSmall(n) == IF n = 0 THEN 0 ELSE 1 + BitLenSmall(n \div 2)

BigBitLen(a) ==
  IF a = <<>> THEN 0 ELSE LimbBits * (Len(a) - 1) + BitLenSmall(a[Len(a)])

\* a * 2^t
BigShiftLeft(a, t) ==
  IF a = <<>> THEN <<>>
  ELSE BigMulSmall([i \in 1..(t \div LimbBits) |-> 0] \o a, 2^(t % LimbBits))

\* floor(a / 2^t)
BigShiftRight(a, t) ==
  IF t \div LimbBits >= Len(a) THEN <<>>
  ELSE BigDivSmall(SubSeq(a, (t \div LimbBits) + 1, Len(a)), 2^(t % LimbBits)).q

\* bit i (bit 0 is the least significant) of a
BigBit(a, i) ==
  IF (i \div LimbBits) + 1 > Len(a) THEN 0
  ELSE (a[(i \div LimbBits) + 1] \div 2^(i % LimbBits)) % 2

\* some bit below bit i of a is set
BigLowNonZero(a, i) ==
  \/ \E j \in 1..Len(a) : j <= i \div LimbBits /\ a[j] # 0
  \/ /\ (i \div LimbBits) + 1 <= Len(a)
     /\ a[(i \div LimbBits) + 1] % 2^(i % LimbBits) # 0

(***************************************************************************)
(* Python float (IEEE-754 binary64) arithmetic, exact                      *)
(***************************************************************************)
MantBits == 53

\* the float nearest to sign * m * 2^e (round to nearest, ties to even)
FloatRound(sign, m, e) ==
  IF BigBitLen(m) <= MantBits THEN [sign |-> sign, mant |-> m, exp |-> e]
  ELSE LET t      == BigBitLen(m) - MantBits
           q      == BigShiftRight(m, t)
           half   == BigBit(m, t - 1) = 1
           sticky == BigLowNonZero(m, t - 1)
           up     == half /\ (sticky \/ BigBit(q, 0) = 1)
       IN  [sign |-> sign,
            mant |-> IF up THEN BigAdd(q, <<1>>) ELSE q,
            exp  |-> e + t]

\* float(k) for a Python int k
FloatFromInt(k) ==
  [sign |-> IF k < 0 THEN -1 ELSE 1,
   mant |-> BigFromNat(IF k < 0 THEN -k ELSE k),
   exp  |-> 0]

\* a * b on floats
FloatMul(a, b) == FloatRound(a.sign * b.sign, BigMul(a.mant, b.mant), a.exp + b.exp)

\* a / d for a float a and a positive Python int d: the exact quotient with a
\* sticky bit appended, then rounded
FloatDivInt(a, d) ==
  IF a.mant = <<>> THEN a
  ELSE LET qr == BigDivSmall(BigShiftLeft(a.mant, 5 * LimbBits), d)
           q2 == BigAdd(BigMulSmall(qr.q, 2), IF qr.r # 0 THEN <<1>> ELSE <<>>)
       IN  FloatRound(a.sign, q2, a.exp - 5 * LimbBits - 1)

\* int(a): truncation toward zero
PyInt(a) ==
  IF a.exp >= 0 THEN a.sign * BigToNat(BigShiftLeft(a.mant, a.exp))
  ELSE a.sign * BigToNat(BigShiftRight(a.mant, -a.exp))

\* the float k / 2 for an integer k: the model's normalized coordinates are
\* counted in half units, all of them exactly representable
FloatFromHalves(k) ==
  [sign |-> IF k < 0 THEN -1 ELSE 1,
   mant |-> BigFromNat(IF k < 0 THEN -k ELSE k),
   exp  |-> -1]

(***************************************************************************)
(* Program constants                                                       *)
(***************************************************************************)
HUNYUAN_COORD_RANGE == 1000

None == <<>>

(***************************************************************************)
(* Coordinate converter: ocr_utils.py and the command-line tool            *)
(***************************************************************************)
get_scale_factors_no_range(image_width, image_height, coord_range) ==
  [x |-> FloatFromInt(image_width), y |-> FloatFromInt(image_height)]

get_scale_factors(image_width, image_height, coord_range) ==
  [x |-> FloatDivInt(FloatFromInt(image_width), coord_range),
   y |-> FloatDivInt(FloatFromInt(image_height), coord_range)]

normalized_to_pixel_swapped(norm_x, norm_y, image_width, image_height, coord_range) ==
  LET scale_x == FloatDivInt(FloatFromInt(image_height), coord_range)
      scale_y == FloatDivInt(FloatFromInt(image_width), coord_range)
  IN  [x |-> PyInt(FloatMul(norm_x, scale_x)), y |-> PyInt(FloatMul(norm_y, scale_y))]

normalized_to_pixel(norm_x, norm_y, image_width, image_height, coord_range) ==
  LET scale_x == FloatDivInt(FloatFromInt(image_width), coord_range)
      scale_y == FloatDivInt(FloatFromInt(image_height), coord_range)
  IN  [x |-> PyInt(FloatMul(norm_x, scale_x)), y |-> PyInt(FloatMul(norm_y, scale_y))]

pixel_to_normalized(pixel_x, pixel_y, image_width, image_height, coord_range) ==
  LET scale_x == FloatDivInt(FloatFromInt(coord_range), image_width)
      scale_y == FloatDivInt(FloatFromInt(coord_range), image_height)
  IN  [x |-> FloatMul(FloatFromInt(pixel_x), scale_x),
       y |-> FloatMul(FloatFromInt(pixel_y), scale_y)]

\* normalized_to_pixel of test/draw_bookshelf_blocks.py
cli_normalized_to_pixel(norm_coord, pixel_size) ==
  PyInt(FloatMul(FloatDivInt(norm_coord, HUNYUAN_COORD_RANGE), FloatFromInt(pixel_size)))

(***************************************************************************)
(* TextBlock (ocr_utils.py).  An Optional field is None or Some(v).        *)
(***************************************************************************)
Some(v) == <<v>>
Get(o) == o[1]
Max(a, b) == IF a >= b THEN a ELSE b
Min(a, b) == IF a <= b THEN a ELSE b

\* TextBlock(text, norm_x1, norm_y1, norm_x2, norm_y2): the pixel fields
\* default to None.  Normalized coordinates are counted in half units.
TextBlock(text, x1, y1, x2, y2) ==
  [text |-> text,
   norm_x1 |-> x1, norm_y1 |-> y1, norm_x2 |-> x2, norm_y2 |-> y2,
   pixel_x1 |-> None, pixel_y1 |-> None, pixel_x2 |-> None, pixel_y2 |-> None]

pixel_width_signed(b) ==
  IF b.pixel_x1 # None /\ b.pixel_x2 # None
  THEN Some(Get(b.pixel_x2) - Get(b.pixel_x1)) ELSE None

pixel_width(b) ==
  IF b.pixel_x1 # None /\ b.pixel_x2 # None
  THEN Some(Max(0, Get(b.pixel_x2) - Get(b.pixel_x1))) ELSE None

pixel_height(b) ==
  IF b.pixel_y1 # None /\ b.pixel_y2 # None
  THEN Some(Max(0, Get(b.pixel_y2) - Get(b.pixel_y1))) ELSE None

norm_width(b) == Max(0, b.norm_x2 - b.norm_x1)

norm_height(b) == Max(0, b.norm_y2 - b.norm_y1)

\* the TextBlock built by one iteration of convert_blocks_to_pixels
ConvertBlock(block, scale_x, scale_y) ==
  [text |-> block.text,
   norm_x1 |-> block.norm_x1, norm_y1 |-> block.norm_y1,
   norm_x2 |-> block.norm_x2, norm_y2 |-> block.norm_y2,
   pixel_x1 |-> Some(PyInt(FloatMul(FloatFromHalves(block.norm_x1), scale_x))),
   pixel_y1 |-> Some(PyInt(FloatMul(FloatFromHalves(block.norm_y1), scale_y))),
   pixel_x2 |-> Some(PyInt(FloatMul(FloatFromHalves(block.norm_x2), scale_x))),
   pixel_y2 |-> Some(PyInt(FloatMul(FloatFromHalves(block.norm_y2), scale_y)))]

(***************************************************************************)
(* Annotators                                                              *)
(***************************************************************************)
COLOR_PALETTE ==
  <<"#f97316", "#22c55e", "#0ea5e9", "#a855f7",
    "#e11d48", "#06b6d4", "#d97706", "#10b981">>

COLORS ==
  <<"#f97316", "#22c55e", "#0ea5e9", "#a855f7",
    "#e11d48", "#06b6d4", "#f59e0b", "#10b981">>

ClampNoMinusOne(v, dimension) == Max(0, Min(v, dimension))

\* max(0, min(v, dimension - 1))
Clamp(v, dimension) == Max(0, Min(v, dimension - 1))

\* the rectangle with the colour picked by idx, not by idx - 1
WebRectangleZeroBased(idx, block, width, height) ==
  LET x1 == IF block.pixel_x1 # None THEN Get(block.pixel_x1) ELSE 0
      y1 == IF block.pixel_y1 # None THEN Get(block.pixel_y1) ELSE 0
      x2 == IF block.pixel_x2 # None THEN Get(block.pixel_x2) ELSE 0
      y2 == IF block.pixel_y2 # None THEN Get(block.pixel_y2) ELSE 0
  IN  [x1 |-> Clamp(Min(x1, x2), width),  y1 |-> Clamp(Min(y1, y2), height),
       x2 |-> Clamp(Max(x1, x2), width),  y2 |-> Clamp(Max(y1, y2), height),
       color |-> COLOR_PALETTE[(idx % Len(COLOR_PALETTE)) + 1]]

\* the rectangle fetch_and_annotate_image hands to draw.rectangle for the
\* block with 1-based index idx
WebRectangle(idx, block, width, height) ==
  LET x1 == IF block.pixel_x1 # None THEN Get(block.pixel_x1) ELSE 0
      y1 == IF block.pixel_y1 # None THEN Get(block.pixel_y1) ELSE 0
      x2 == IF block.pixel_x2 # None THEN Get(block.pixel_x2) ELSE 0
      y2 == IF block.pixel_y2 # None THEN Get(block.pixel_y2) ELSE 0
  IN  [x1 |-> Clamp(Min(x1, x2), width),  y1 |-> Clamp(Min(y1, y2), height),
       x2 |-> Clamp(Max(x1, x2), width),  y2 |-> Clamp(Max(y1, y2), height),
       color |-> COLOR_PALETTE[((idx - 1) % Len(COLOR_PALETTE)) + 1]]

\* the rectangle draw_blocks hands to draw.rectangle for the compartment
\* with 1-based index idx
CliRectangle(idx, compartment, width, height) ==
  [x1 |-> cli_normalized_to_pixel(FloatFromHalves(compartment.norm_x1), width),
   y1 |-> cli_normalized_to_pixel(FloatFromHalves(compartment.norm_y1), height),
   x2 |-> cli_normalized_to_pixel(FloatFromHalves(compartment.norm_x2), width),
   y2 |-> cli_normalized_to_pixel(FloatFromHalves(compartment.norm_y2), height),
   color |-> COLORS[((idx - 1) % Len(COLORS)) + 1]]

(***************************************************************************)
(* /api/ocr response                                                       *)
(***************************************************************************)
\* block_data for the block at 0-based position idx of converted_blocks
\* block_data with the palette looked up one place further on
BlockDataShifted(idx, block) ==
  [index |-> idx + 1,
   text  |-> block.text,
   color |-> COLOR_PALETTE[((idx + 1) % Len(COLOR_PALETTE)) + 1],
   normalized |-> [x1 |-> block.norm_x1, y1 |-> block.norm_y1,
                   x2 |-> block.norm_x2, y2 |-> block.norm_y2,
                   width |-> norm_width(block), height |-> norm_height(block)],
   pixel |-> IF block.pixel_x1 # None
             THEN Some([x1 |-> Get(block.pixel_x1), y1 |-> Get(block.pixel_y1),
                        x2 |-> Get(block.pixel_x2), y2 |-> Get(block.pixel_y2),
                        width  |-> Get(pixel_width(block)),
                        height |-> Get(pixel_height(block))])
             ELSE None,
   x1 |-> IF block.pixel_x1 # None THEN Get(block.pixel_x1) ELSE block.norm_x1,
   y1 |-> IF block.pixel_x1 # None THEN Get(block.pixel_y1) ELSE block.norm_y1,
   x2 |-> IF block.pixel_x1 # None THEN Get(block.pixel_x2) ELSE block.norm_x2,
   y2 |-> IF block.pixel_x1 # None THEN Get(block.pixel_y2) ELSE block.norm_y2,
   width  |-> IF block.pixel_x1 # None THEN Get(pixel_width(block))
              ELSE norm_width(block),
   height |-> IF block.pixel_x1 # None THEN Get(pixel_height(block))
              ELSE norm_height(block)]

BlockData(idx, block) ==
  [index |-> idx + 1,
   text  |-> block.text,
   color |-> COLOR_PALETTE[(idx % Len(COLOR_PALETTE)) + 1],
   normalized |-> [x1 |-> block.norm_x1, y1 |-> block.norm_y1,
                   x2 |-> block.norm_x2, y2 |-> block.norm_y2,
                   width |-> norm_width(block), height |-> norm_height(block)],
   pixel |-> IF block.pixel_x1 # None
             THEN Some([x1 |-> Get(block.pixel_x1), y1 |-> Get(block.pixel_y1),
                        x2 |-> Get(block.pixel_x2), y2 |-> Get(block.pixel_y2),
                        width  |-> Get(pixel_width(block)),
                        height |-> Get(pixel_height(block))])
             ELSE None,
   x1 |-> IF block.pixel_x1 # None THEN Get(block.pixel_x1) ELSE block.norm_x1,
   y1 |-> IF block.pixel_x1 # None THEN Get(block.pixel_y1) ELSE block.norm_y1,
   x2 |-> IF block.pixel_x1 # None THEN Get(block.pixel_x2) ELSE block.norm_x2,
   y2 |-> IF block.pixel_x1 # None THEN Get(block.pixel_y2) ELSE block.norm_y2,
   width  |-> IF block.pixel_x1 # None THEN Get(pixel_width(block))
              ELSE norm_width(block),
   height |-> IF block.pixel_x1 # None THEN Get(pixel_height(block))
              ELSE norm_height(block)]

(***************************************************************************)
(* State                                                                   *)
(***************************************************************************)
VARIABLES
  entry,            \* the operation under way
  pc,               \* its position
  blocks,           \* the caller's list of TextBlocks (the parsed batch)
  image,            \* the decoded image's size after EXIF transposition
  scale,            \* convert_blocks_to_pixels: scale_x, scale_y
  converted,        \* convert_blocks_to_pixels: the list being built
  ret,              \* convert_blocks_to_pixels: who receives the result
  result,           \* what a direct call returned
  ann_blocks,       \* fetch_and_annotate_image: converted_blocks
  drawn,            \* the rectangles handed to draw.rectangle, in order
  api_blocks,       \* api_ocr: converted_blocks
  image_size,       \* api_ocr: image_size
  api_scale,        \* api_ocr: scale_x, scale_y
  annotated_image,  \* api_ocr: annotated_image
  response,         \* api_ocr: the JSON body returned with status 200
  fn,               \* converter call under test
  args,             \* its arguments
  norm,             \* the value pixel_to_normalized returned
  pix,              \* the value normalized_to_pixel returned
  content,          \* parse_ocr_content: the string, as a sequence of characters
  pieces,           \* the pieces the string was put together from
  ppos,             \* parse_ocr_content: where finditer looks next
  parsed,           \* parse_ocr_content: blocks
  ppc,              \* parse_ocr_content: running or returned
  supplied,         \* fetch_and_annotate_image: an image object was passed in
  local_image,      \* fetch_and_annotate_image: the object `image` refers to
  caller_marks,     \* rectangles drawn so far on the caller's image object
  request,          \* api_ocr: the request body
  image_url,        \* api_ocr: image_url
  prompt,           \* api_ocr: prompt
  steps,            \* api_ocr: steps
  ocr_calls,        \* requests.post calls to the OCR endpoint so far
  img_fetches,      \* requests.get calls for the image so far
  ocr_outcome,      \* how the OCR endpoint answers this request
  http,             \* api_ocr: the (status, error) returned, or how it ended
  cli_in,           \* the command-line tool's files and JSON document
  exit_code,        \* the command-line tool's exit code
  written,          \* the annotated image file was written
  stdout,           \* what the command-line tool printed last
  settings_file,    \* the content of ocr_settings.json
  savers,           \* save_settings calls under way: position of each
  loaded,           \* what load_settings returned last
  scan_data,        \* get_image_size_from_bytes: data, a sequence of bytes
  scan_idx,         \* get_image_size_from_bytes: idx of the JPEG scan
  scan_iters,       \* iterations of the JPEG scan's loop so far
  scan_ret,         \* get_image_size_from_bytes: the value returned
  scan_pc           \* get_image_size_from_bytes: in the loop, returned or raised

pipeVars == <<entry, pc, blocks, image, scale, converted, ret, result,
              ann_blocks, drawn, api_blocks, image_size, api_scale,
              annotated_image, response>>
convVars == <<fn, args, norm, pix>>
parseVars == <<content, pieces, ppos, parsed, ppc>>
imgVars == <<supplied, local_image, caller_marks>>
apiVars == <<request, image_url, prompt, steps, ocr_calls, img_fetches, ocr_outcome, http>>
cliVars == <<cli_in, exit_code, written, stdout>>
setVars == <<settings_file, savers, loaded>>
scanVars == <<scan_data, scan_idx, scan_iters, scan_ret, scan_pc>>
extVars == <<parseVars, scanVars, imgVars, apiVars, cliVars, setVars>>
vars == <<pipeVars, convVars, extVars>>

(***************************************************************************)
(* Inputs                                                                  *)
(***************************************************************************)
MaxBlocks == 2      \* longest batch
MaxDim == 9         \* largest image side of the round-trip calls
MaxNormK == 8       \* the converter's inputs are k * NormStep, |k| <= MaxNormK

\* 125 normalized units, counted in halves
NormStep == 125 * 2

\* candidate blocks; coordinates in half units
Candidates ==
  { TextBlock("hello", 1, 1, 2, 2),                \* (0.5, 0.5, 1.0, 1.0)
    TextBlock("rev", 100, 20, 20, 180),            \* (50, 10, 10, 90)
    TextBlock("mid", 200, 200, 1000, 800),         \* (100, 100, 500, 400)
    TextBlock("out", -40, 60, 2400, 2200),         \* (-20, 30, 1200, 1100)
    TextBlock("wide", 20, 20, 1560, 1180),         \* (10, 10, 780, 590)
    TextBlock("edge", 750, 750, 1500, 2000) }      \* (375, 375, 750, 1000)

Batches == UNION { [1..n -> Candidates] : n \in 0..MaxBlocks }

Images == { [w |-> 800, h |-> 600], [w |-> 1000, h |-> 1000], [w |-> 36, h |-> 72] }

Ranges == { HUNYUAN_COORD_RANGE, 7 }

Entries == { "convert", "rescale", "annotate", "api_ocr", "cli" }

NormGrid == { k * NormStep : k \in (-MaxNormK)..MaxNormK }

\* JSON values of a request body or of the settings document; strings are
\* sequences of characters
Absent == [type |-> "absent", chars |-> <<>>]
Null == [type |-> "null", chars |-> <<>>]
Str(chars) == [type |-> "string", chars |-> chars]
Number(digit) == [type |-> "number", chars |-> <<digit>>]

UrlChars == <<"u", "r", "l">>

\* stands for the configured default prompt
DEFAULT_PROMPT == <<"D", "e", "t", "e", "c", "t">>

\* ocr_settings.json: whether it exists and what it holds, in the pieces
\* json.dump writes one after the other
NoFile == [exists |-> FALSE, data |-> <<>>]
FileOf(data) == [exists |-> TRUE, data |-> data]

\* json.dump(settings, f, ...) of a dict with the keys image_url and prompt
Dump(settings) ==
  << [part |-> "{", value |-> Null],
     [part |-> "image_url", value |-> settings.image_url],
     [part |-> "prompt", value |-> settings.prompt],
     [part |-> "}", value |-> Null] >>

\* api_ocr after lines 241-263 went through for the body {"image_url": "url"}
ApiParsed ==
  /\ request = Some([kind |-> "object", image_url |-> Str(UrlChars), prompt |-> Absent])
  /\ image_url = Some(UrlChars) /\ prompt = Some(<<>>)
  /\ steps = <<"Received request", "Calling OCR endpoint", "Parsing OCR response">>
  /\ ocr_calls = 1 /\ img_fetches = 0 /\ ocr_outcome = "ok" /\ http = None
  /\ settings_file = FileOf(Dump([image_url |-> Str(UrlChars),
                                  prompt |-> Str(DEFAULT_PROMPT)]))

PipeIdle ==
  /\ entry = "none" /\ pc = "idle" /\ blocks = <<>> /\ image = [w |-> 1, h |-> 1]
  /\ scale = None /\ converted = <<>> /\ ret = None /\ result = None
  /\ ann_blocks = <<>> /\ drawn = <<>> /\ api_blocks = <<>> /\ image_size = None
  /\ api_scale = None /\ annotated_image = None /\ response = None

ConvIdle ==
  /\ fn = "none" /\ args = [w |-> 1, h |-> 1, r |-> 1, x |-> 0, y |-> 0]
  /\ norm = None /\ pix = None

ParseIdle ==
  content = <<>> /\ pieces = <<>> /\ ppos = 0 /\ parsed = <<>> /\ ppc = "idle"

ScanIdle ==
  /\ scan_data = <<>> /\ scan_idx = 0 /\ scan_iters = 0 /\ scan_ret = None
  /\ scan_pc = "idle"

ImgIdle ==
  supplied = FALSE /\ local_image = "none" /\ caller_marks = 0

ApiIdle ==
  /\ request = None /\ image_url = None /\ prompt = None /\ steps = <<>>
  /\ ocr_calls = 0 /\ img_fetches = 0 /\ ocr_outcome = "none" /\ http = None

\* file names of the command line, as sequences of characters
ShelfJpg == <<"s", "h", "e", "l", "f", ".", "j", "p", "g">>
DottedPng == <<"a", ".", "b", ".", "p", "n", "g">>
OutJpg == <<"o", "u", "t", ".", "j", "p", "g">>
ShelfAnnotatedJpg ==
  <<"s", "h", "e", "l", "f", "_", "a", "n", "n", "o", "t", "a", "t", "e", "d", ".",
    "j", "p", "g">>

\* Path(name).stem of a name without directories: the name up to its last
\* dot, when that dot is neither the first nor the last character
Stem(name) ==
  LET dots == { i \in 2..(Len(name) - 1) : name[i] = "." }
  IN  IF dots = {} THEN name
      ELSE SubSeq(name, 1, (CHOOSE i \in dots : \A j \in dots : j <= i) - 1)

\* lines 155-156: output_filename = f"{input_stem}_annotated.jpg"; the
\* value of -o/--output (args.output) is not a parameter of draw_blocks
OutputFilename(image_filename) ==
  Stem(image_filename) \o <<"_", "a", "n", "n", "o", "t", "a", "t", "e", "d", ".",
                              "j", "p", "g">>

CliIdle ==
  cli_in = None /\ exit_code = None /\ written = FALSE /\ stdout = None

\* draw_blocks called with a JSON list of compartments that carry x1, y1,
\* x2, y2, and an image that opens and saves
GoodCliInput ==
  [args |-> "both", json_file |-> "list", fields |-> "xy", image_file |-> "ok",
   save |-> "ok", image_filename |-> ShelfJpg, output |-> None]

CliCalled ==
  cli_in = Some(GoodCliInput) /\ exit_code = None /\ written = FALSE /\ stdout = None

SetIdle ==
  settings_file = NoFile /\ savers = <<>> /\ loaded = None

ExtIdle ==
  ParseIdle /\ ScanIdle /\ ImgIdle /\ ApiIdle /\ CliIdle /\ SetIdle

(***************************************************************************)
(* Converter calls: normalized_to_pixel on a normalized pair, the tool's   *)
(* normalized_to_pixel on each coordinate of a pair, and pixel_to_         *)
(* normalized followed by normalized_to_pixel on what it returned          *)
(***************************************************************************)
InitConv ==
  /\ PipeIdle /\ ExtIdle
  /\ norm = None /\ pix = None
  /\ \/ /\ fn = "normalized_to_pixel"
        /\ \E i \in Images, r \in Ranges, x \in NormGrid, y \in NormGrid :
             args = [w |-> i.w, h |-> i.h, r |-> r, x |-> x, y |-> y]
     \/ /\ fn = "cli"
        /\ \E i \in Images, x \in NormGrid, y \in NormGrid :
             args = [w |-> i.w, h |-> i.h, r |-> HUNYUAN_COORD_RANGE, x |-> x, y |-> y]
     \/ /\ fn = "round_trip"
        /\ \E w \in 1..MaxDim, h \in 1..MaxDim, r \in Ranges :
             \E x \in 0..w, y \in 0..h :
               args = [w |-> w, h |-> h, r |-> r, x |-> x, y |-> y]

CallNormalizedToPixel ==
  /\ fn = "normalized_to_pixel" /\ pix = None
  /\ pix' = Some(normalized_to_pixel(FloatFromHalves(args.x), FloatFromHalves(args.y),
                                     args.w, args.h, args.r))
  /\ UNCHANGED <<extVars, pipeVars, fn, args, norm>>

CallCliNormalizedToPixel ==
  /\ fn = "cli" /\ pix = None
  /\ pix' = Some([x |-> cli_normalized_to_pixel(FloatFromHalves(args.x), args.w),
                  y |-> cli_normalized_to_pixel(FloatFromHalves(args.y), args.h)])
  /\ UNCHANGED <<extVars, pipeVars, fn, args, norm>>

CallPixelToNormalized ==
  /\ fn = "round_trip" /\ norm = None
  /\ norm' = Some(pixel_to_normalized(args.x, args.y, args.w, args.h, args.r))
  /\ UNCHANGED <<extVars, pipeVars, fn, args, pix>>

CallNormalizedToPixelBack ==
  /\ fn = "round_trip" /\ norm # None /\ pix = None
  /\ pix' = Some(normalized_to_pixel(Get(norm).x, Get(norm).y, args.w, args.h, args.r))
  /\ UNCHANGED <<extVars, pipeVars, fn, args, norm>>

NextConv ==
  \/ CallNormalizedToPixel
  \/ CallCliNormalizedToPixel
  \/ CallPixelToNormalized
  \/ CallNormalizedToPixelBack

SpecConv == InitConv /\ [][NextConv]_vars

(***************************************************************************)
(* Claims about the converter (checked under SpecConv)                     *)
(***************************************************************************)
\* num / den truncated toward zero, in exact integer arithmetic (den > 0)
ExactTrunc(num, den) ==
  IF num >= 0 THEN num \div den ELSE -((-num) \div den)

\* what truncating (n / r) * d toward zero gives for n = halves / 2, read
\* either over the reals or as the float expression (n / r) * d
TruncatedProducts(halves, d, r) ==
  { ExactTrunc(halves * d, 2 * r),
    PyInt(FloatMul(FloatDivInt(FloatFromHalves(halves), r), FloatFromInt(d))) }

\* C1: every normalized-to-pixel conversion (normalized_to_pixel of
\* ocr_utils and of the command-line tool) returns (n / r) * d truncated
\* toward zero.
C1_TruncatesProduct ==
  (fn \in {"normalized_to_pixel", "cli"} /\ pix # None) =>
     /\ Get(pix).x \in TruncatedProducts(args.x, args.w, args.r)
     /\ Get(pix).y \in TruncatedProducts(args.y, args.h, args.r)

Abs(v) == IF v < 0 THEN -v ELSE v

\* C2: for every pixel coordinate p with 0 <= p <= dim, converting p to
\* normalized and back gives a pixel that differs from p by at most 1.
C2_RoundTripWithinOne ==
  (fn = "round_trip" /\ pix # None) =>
     /\ Abs(Get(pix).x - args.x) <= 1
     /\ Abs(Get(pix).y - args.y) <= 1

\* a round trip that comes back one pixel short
C2_RoundTripOffByOne ==
  fn = "round_trip" /\ pix # None /\ Get(pix).x = args.x - 1 /\ args.w # args.h

(***************************************************************************)
(* The pipeline: convert_blocks_to_pixels and its callers                  *)
(***************************************************************************)
Init ==
  /\ ConvIdle /\ ParseIdle /\ ScanIdle /\ ImgIdle
  /\ entry \in Entries
  /\ IF entry = "cli" THEN CliCalled ELSE CliIdle
  /\ IF entry = "api_ocr" THEN ApiParsed /\ savers = <<>> /\ loaded = None
     ELSE ApiIdle /\ SetIdle
  /\ pc = "start"
  /\ blocks \in Batches
  /\ image \in Images
  /\ scale = None /\ converted = <<>> /\ ret = None /\ result = None
  /\ ann_blocks = <<>> /\ drawn = <<>> /\ api_blocks = <<>> /\ image_size = None
  /\ api_scale = None /\ annotated_image = None /\ response = None

\* convert_blocks_to_pixels(blocks, image_width, image_height) is entered:
\* line 221
ConvertEnter(to, image_width, image_height) ==
  /\ scale' = Some(get_scale_factors(image_width, image_height, HUNYUAN_COORD_RANGE))
  /\ converted' = <<>>
  /\ ret' = Some(to)
  /\ pc' = "convert_loop"

\* convert_blocks_to_pixels called directly
CallConvertBlocksToPixels ==
  /\ entry = "convert" /\ pc = "start"
  /\ ConvertEnter("caller", image.w, image.h)
  /\ UNCHANGED <<entry, blocks, image, result, ann_blocks, drawn, api_blocks,
                 image_size, api_scale, annotated_image, response, convVars, extVars>>

\* a wrapper that passes image_size[1], image_size[0]
CallRescaleBlocksSwapped ==
  /\ entry = "rescale" /\ pc = "start"
  /\ ConvertEnter("caller", image.h, image.w)
  /\ UNCHANGED <<entry, blocks, image, result, ann_blocks, drawn, api_blocks,
                 image_size, api_scale, annotated_image, response, convVars, extVars>>

\* rescale_blocks_to_image(blocks, (image.w, image.h))
CallRescaleBlocksToImage ==
  /\ entry = "rescale" /\ pc = "start"
  /\ ConvertEnter("caller", image.w, image.h)
  /\ UNCHANGED <<entry, blocks, image, result, ann_blocks, drawn, api_blocks,
                 image_size, api_scale, annotated_image, response, convVars, extVars>>

\* a loop iteration that writes the pixel fields into the caller's block
ConvertStepInPlace ==
  /\ pc = "convert_loop" /\ Len(converted) < Len(blocks)
  /\ LET i == Len(converted) + 1
         b == ConvertBlock(blocks[i], Get(scale).x, Get(scale).y)
     IN  /\ blocks' = [blocks EXCEPT ![i] = b]
         /\ converted' = Append(converted, b)
  /\ UNCHANGED <<entry, pc, image, scale, ret, result, ann_blocks, drawn,
                 api_blocks, image_size, api_scale, annotated_image, response, convVars, extVars>>

\* a loop iteration that resolves the convention for its own box: a box
\* inside the unit square is scaled by the image size
ConvertStepPerBox ==
  /\ pc = "convert_loop" /\ Len(converted) < Len(blocks)
  /\ LET b == blocks[Len(converted) + 1]
         unit == \A c \in {b.norm_x1, b.norm_y1, b.norm_x2, b.norm_y2} : 0 <= c /\ c <= 2
         s == IF unit THEN get_scale_factors(image.w, image.h, 1) ELSE Get(scale)
     IN  converted' = Append(converted, ConvertBlock(b, s.x, s.y))
  /\ UNCHANGED <<entry, pc, blocks, image, scale, ret, result, ann_blocks, drawn,
                 api_blocks, image_size, api_scale, annotated_image, response, convVars, extVars>>

\* one iteration of the loop of convert_blocks_to_pixels
ConvertStep ==
  /\ pc = "convert_loop" /\ Len(converted) < Len(blocks)
  /\ converted' = Append(converted,
                         ConvertBlock(blocks[Len(converted) + 1], Get(scale).x, Get(scale).y))
  /\ UNCHANGED <<entry, pc, blocks, image, scale, ret, result, ann_blocks, drawn,
                 api_blocks, image_size, api_scale, annotated_image, response, convVars, extVars>>

\* return converted, to a direct caller
ConvertReturnToCaller ==
  /\ pc = "convert_loop" /\ Len(converted) = Len(blocks) /\ ret = Some("caller")
  /\ result' = Some(converted)
  /\ pc' = "done"
  /\ UNCHANGED <<entry, blocks, image, scale, converted, ret, ann_blocks, drawn,
                 api_blocks, image_size, api_scale, annotated_image, response, convVars, extVars>>

\* return converted, to api_ocr (line 290)
ConvertReturnToApi ==
  /\ pc = "convert_loop" /\ Len(converted) = Len(blocks) /\ ret = Some("api_ocr")
  /\ api_blocks' = converted
  /\ pc' = "api_render"
  /\ UNCHANGED <<entry, blocks, image, scale, converted, ret, result, ann_blocks, drawn,
                 image_size, api_scale, annotated_image, response, convVars, extVars>>

\* return converted, to fetch_and_annotate_image (line 129)
ConvertReturnToAnnotate ==
  /\ pc = "convert_loop" /\ Len(converted) = Len(blocks) /\ ret = Some("annotate")
  /\ ann_blocks' = converted
  /\ drawn' = <<>>
  /\ pc' = "draw_loop"
  /\ UNCHANGED <<entry, blocks, image, scale, converted, ret, result,
                 api_blocks, image_size, api_scale, annotated_image, response, convVars, extVars>>

(***************************************************************************)
(* fetch_and_annotate_image                                                *)
(***************************************************************************)
\* lines 113-122: the image is downloaded when none was passed in (given is
\* FALSE), then ImageOps.exif_transpose either returns a new image object,
\* which `image` refers to from then on, or raises, and `image` keeps
\* referring to the object it had
AnnotateOpen(given) ==
  /\ supplied' = given
  /\ img_fetches' = IF given THEN img_fetches ELSE img_fetches + 1
  /\ \E transposed \in BOOLEAN :
       local_image' = IF transposed THEN "transposed"
                      ELSE IF given THEN "caller" ELSE "fetched"
  /\ caller_marks' = 0

\* called directly, with or without an image object; then line 129
CallFetchAndAnnotateImage ==
  /\ entry = "annotate" /\ pc = "start"
  /\ \E given \in BOOLEAN : AnnotateOpen(given)
  /\ ConvertEnter("annotate", image.w, image.h)
  /\ UNCHANGED <<entry, blocks, image, result, ann_blocks, drawn, api_blocks,
                 image_size, api_scale, annotated_image, response, convVars,
                 parseVars, scanVars, cliVars, setVars, request, image_url, prompt, steps,
                 ocr_calls, ocr_outcome, http>>

\* one iteration of the drawing loop (lines 134-159): ImageDraw.Draw(image)
\* draws on the object `image` refers to
DrawStep ==
  /\ pc = "draw_loop" /\ Len(drawn) < Len(ann_blocks)
  /\ drawn' = Append(drawn, WebRectangle(Len(drawn) + 1, ann_blocks[Len(drawn) + 1],
                                         image.w, image.h))
  /\ caller_marks' = IF local_image = "caller" THEN caller_marks + 1 ELSE caller_marks
  /\ UNCHANGED <<entry, pc, blocks, image, scale, converted, ret, result, ann_blocks,
                 api_blocks, image_size, api_scale, annotated_image, response, convVars,
                 parseVars, scanVars, apiVars, cliVars, setVars, supplied, local_image>>

\* lines 161-164, back to a direct caller
AnnotateReturnToCaller ==
  /\ pc = "draw_loop" /\ Len(drawn) = Len(ann_blocks) /\ entry = "annotate"
  /\ result' = Some([uri |-> "data:image/png;base64", size |-> image])
  /\ pc' = "done"
  /\ UNCHANGED <<entry, blocks, image, scale, converted, ret, ann_blocks, drawn,
                 api_blocks, image_size, api_scale, annotated_image, response, convVars, extVars>>

\* lines 161-164, back to api_ocr (line 293)
AnnotateReturnToApi ==
  /\ pc = "draw_loop" /\ Len(drawn) = Len(ann_blocks) /\ entry = "api_ocr"
  /\ annotated_image' = Some("data:image/png;base64")
  /\ pc' = "api_respond"
  /\ UNCHANGED <<entry, blocks, image, scale, converted, ret, result, ann_blocks, drawn,
                 api_blocks, image_size, api_scale, response, convVars, extVars>>

(***************************************************************************)
(* api_ocr, from the parsed blocks on (lines 263-367)                      *)
(***************************************************************************)
\* line 270: no blocks, nothing is fetched
ApiNoBlocks ==
  /\ entry = "api_ocr" /\ pc = "start" /\ blocks = <<>>
  /\ pc' = "api_respond"
  /\ UNCHANGED <<entry, blocks, image, scale, converted, ret, result, ann_blocks, drawn,
                 api_blocks, image_size, api_scale, annotated_image, response, convVars, extVars>>

\* lines 274-290: the image is fetched and decoded, then converted
ApiFetchImage ==
  /\ entry = "api_ocr" /\ pc = "start" /\ blocks # <<>>
  /\ steps' = Append(steps, "Fetching image for dimension analysis")
  /\ img_fetches' = img_fetches + 1
  /\ image_size' = Some(image)
  /\ api_scale' = Some(get_scale_factors(image.w, image.h, HUNYUAN_COORD_RANGE))
  /\ ConvertEnter("api_ocr", image.w, image.h)
  /\ UNCHANGED <<entry, blocks, image, result, ann_blocks, drawn, api_blocks,
                 annotated_image, response, convVars, parseVars, scanVars, imgVars, cliVars,
                 setVars, request, image_url, prompt, ocr_calls, ocr_outcome, http>>

\* lines 274-276 raise: lines 295-299
ApiFetchImageFails ==
  /\ entry = "api_ocr" /\ pc = "start" /\ blocks # <<>>
  /\ steps' = steps \o <<"Fetching image for dimension analysis",
                         "Warning: Could not fetch image">>
  /\ img_fetches' = img_fetches + 1
  /\ api_blocks' = blocks
  /\ image_size' = None
  /\ pc' = "api_respond"
  /\ UNCHANGED <<entry, blocks, image, scale, converted, ret, result, ann_blocks, drawn,
                 api_scale, annotated_image, response, convVars, parseVars, scanVars, imgVars,
                 cliVars, setVars, request, image_url, prompt, ocr_calls, ocr_outcome,
                 http>>

\* line 293 with the image argument left out
ApiRenderRefetch ==
  /\ entry = "api_ocr" /\ pc = "api_render"
  /\ steps' = Append(steps, "Rendering bounding boxes")
  /\ AnnotateOpen(FALSE)
  /\ ConvertEnter("annotate", image.w, image.h)
  /\ UNCHANGED <<entry, blocks, image, result, ann_blocks, drawn, api_blocks,
                 image_size, api_scale, annotated_image, response, convVars,
                 parseVars, scanVars, cliVars, setVars, request, image_url, prompt, ocr_calls,
                 ocr_outcome, http>>

\* lines 292-293: fetch_and_annotate_image(image_url, blocks, img)
ApiRender ==
  /\ entry = "api_ocr" /\ pc = "api_render"
  /\ steps' = Append(steps, "Rendering bounding boxes")
  /\ AnnotateOpen(TRUE)
  /\ ConvertEnter("annotate", image.w, image.h)
  /\ UNCHANGED <<entry, blocks, image, result, ann_blocks, drawn, api_blocks,
                 image_size, api_scale, annotated_image, response, convVars,
                 parseVars, scanVars, cliVars, setVars, request, image_url, prompt, ocr_calls,
                 ocr_outcome, http>>

\* the fallback without line 298: converted_blocks keeps the converted list
ApiAnnotateFailsKeepsConverted ==
  /\ entry = "api_ocr" /\ pc \in {"api_render", "draw_loop"}
  /\ steps' = Append(steps, "Warning: Could not fetch image")
  /\ image_size' = None
  /\ pc' = "api_respond"
  /\ UNCHANGED <<entry, blocks, image, scale, converted, ret, result, ann_blocks, drawn,
                 api_blocks, api_scale, annotated_image, response, convVars, parseVars, scanVars,
                 imgVars, cliVars, setVars, request, image_url, prompt, ocr_calls,
                 img_fetches, ocr_outcome, http>>

\* line 293 raises (drawing or encoding fails): lines 295-299
ApiAnnotateFails ==
  /\ entry = "api_ocr" /\ pc \in {"api_render", "draw_loop"}
  /\ steps' = Append(steps, "Warning: Could not fetch image")
  /\ api_blocks' = blocks
  /\ image_size' = None
  /\ pc' = "api_respond"
  /\ UNCHANGED <<entry, blocks, image, scale, converted, ret, result, ann_blocks, drawn,
                 api_scale, annotated_image, response, convVars, parseVars, scanVars, imgVars,
                 cliVars, setVars, request, image_url, prompt, ocr_calls, img_fetches,
                 ocr_outcome, http>>

\* lines 304-367
ApiRespond ==
  /\ entry = "api_ocr" /\ pc = "api_respond"
  /\ response' = Some([blocks |-> [i \in 1..Len(api_blocks) |-> BlockData(i - 1, api_blocks[i])],
                       image_with_boxes |-> annotated_image,
                       image_size |-> image_size,
                       coord_info |-> [normalized_range |-> HUNYUAN_COORD_RANGE,
                                       scale |-> api_scale]])
  /\ steps' = Append(steps, "Done")
  /\ http' = Some([status |-> 200, error |-> [prefix |-> "", message |-> ""]])
  /\ pc' = "done"
  /\ UNCHANGED <<entry, blocks, image, scale, converted, ret, result, ann_blocks, drawn,
                 api_blocks, image_size, api_scale, annotated_image, convVars, parseVars, scanVars,
                 imgVars, cliVars, setVars, request, image_url, prompt, ocr_calls,
                 img_fetches, ocr_outcome>>

(***************************************************************************)
(* draw_blocks of test/draw_bookshelf_blocks.py; the compartments are the  *)
(* blocks' normalized boxes                                                *)
(***************************************************************************)
\* lines 51-108: the JSON file is read and is a list or a dict with a known
\* key, the image exists and opens
CliLoad ==
  /\ entry = "cli" /\ pc = "start"
  /\ Get(cli_in).json_file \in { "list", "dict_detections" }
  /\ Get(cli_in).image_file = "ok"
  /\ drawn' = <<>>
  /\ pc' = "cli_loop"
  /\ UNCHANGED <<entry, blocks, image, scale, converted, ret, result, ann_blocks,
                 api_blocks, image_size, api_scale, annotated_image, response, convVars, extVars>>

\* one iteration of the loop at lines 110-151
CliDrawStep ==
  /\ pc = "cli_loop" /\ Len(drawn) < Len(blocks)
  /\ Get(cli_in).fields # "missing"
  /\ drawn' = Append(drawn, CliRectangle(Len(drawn) + 1, blocks[Len(drawn) + 1],
                                         image.w, image.h))
  /\ UNCHANGED <<entry, pc, blocks, image, scale, converted, ret, result, ann_blocks,
                 api_blocks, image_size, api_scale, annotated_image, response, convVars, extVars>>

\* lines 153-163: image.save writes the file named output_filename in the
\* script's directory, then the summary is printed; result is the name of
\* the file written, which draw_blocks returns
CliSave ==
  /\ pc = "cli_loop" /\ Len(drawn) = Len(blocks)
  /\ Get(cli_in).save = "ok"
  /\ written' = TRUE
  /\ stdout' = Some("Saved annotated image")
  /\ result' = Some(OutputFilename(Get(cli_in).image_filename))
  /\ pc' = "done"
  /\ UNCHANGED <<entry, blocks, image, scale, converted, ret, ann_blocks, drawn,
                 api_blocks, image_size, api_scale, annotated_image, response, convVars,
                 parseVars, scanVars, imgVars, apiVars, setVars, cli_in, exit_code>>

Next ==
  \/ CallConvertBlocksToPixels
  \/ CallRescaleBlocksToImage
  \/ ConvertStep
  \/ ConvertReturnToCaller
  \/ ConvertReturnToApi
  \/ ConvertReturnToAnnotate
  \/ CallFetchAndAnnotateImage
  \/ DrawStep
  \/ AnnotateReturnToCaller
  \/ AnnotateReturnToApi
  \/ ApiNoBlocks
  \/ ApiFetchImage
  \/ ApiFetchImageFails
  \/ ApiRender
  \/ ApiAnnotateFails
  \/ ApiRespond
  \/ CliLoad
  \/ CliDrawStep
  \/ CliSave

Spec == Init /\ [][Next]_vars

(***************************************************************************)
(* Claims about the rescaler (checked under Spec)                          *)
(***************************************************************************)
\* p is within one of num / den truncated toward zero
PixelNear(p, num, den) == Abs(Get(p) - ExactTrunc(num, den)) <= 1

\* every coordinate of every box of the batch lies in [0, 1]
UnitBatch(bs) ==
  /\ bs # <<>>
  /\ \A i \in 1..Len(bs) :
       \A c \in {bs[i].norm_x1, bs[i].norm_y1, bs[i].norm_x2, bs[i].norm_y2} :
         0 <= c /\ c <= 2

\* C3 as stated: a batch whose coordinates all lie in [0,1] has each x
\* multiplied by the image width and each y by the image height.
C3_UnitBatchScaledByImageSize ==
  UnitBatch(blocks) =>
    \A i \in 1..Len(converted) :
      /\ PixelNear(converted[i].pixel_x1, blocks[i].norm_x1 * image.w, 2)
      /\ PixelNear(converted[i].pixel_y1, blocks[i].norm_y1 * image.h, 2)
      /\ PixelNear(converted[i].pixel_x2, blocks[i].norm_x2 * image.w, 2)
      /\ PixelNear(converted[i].pixel_y2, blocks[i].norm_y2 * image.h, 2)

\* C3 amended: a batch whose coordinates all lie in [0,1] is converted like
\* any other, each x multiplied by width / 1000 and each y by height / 1000
\* and truncated; (0.5, 0.5, 1.0, 1.0) on 800 x 600 becomes (0, 0, 0, 0).
C3_UnitBatchScaledByRange ==
  UnitBatch(blocks) =>
    \A i \in 1..Len(converted) :
      /\ PixelNear(converted[i].pixel_x1, blocks[i].norm_x1 * image.w, 2 * HUNYUAN_COORD_RANGE)
      /\ PixelNear(converted[i].pixel_y1, blocks[i].norm_y1 * image.h, 2 * HUNYUAN_COORD_RANGE)
      /\ PixelNear(converted[i].pixel_x2, blocks[i].norm_x2 * image.w, 2 * HUNYUAN_COORD_RANGE)
      /\ PixelNear(converted[i].pixel_y2, blocks[i].norm_y2 * image.h, 2 * HUNYUAN_COORD_RANGE)
      /\ (image = [w |-> 800, h |-> 600] /\ blocks[i] = TextBlock("hello", 1, 1, 2, 2)) =>
           /\ converted[i].pixel_x1 = Some(0) /\ converted[i].pixel_y1 = Some(0)
           /\ converted[i].pixel_x2 = Some(0) /\ converted[i].pixel_y2 = Some(0)

\* the box (0.5, 0.5, 1.0, 1.0) converted on an 800 x 600 image
C3_UnitBatchConverted ==
  /\ UnitBatch(blocks) /\ pc = "done" /\ entry = "convert"
  /\ image = [w |-> 800, h |-> 600]
  /\ blocks = <<TextBlock("hello", 1, 1, 2, 2)>>
  /\ Len(Get(result)) = 1

RECURSIVE SeqMax(_, _)
SeqMax(bs, field) ==
  IF Len(bs) = 1 THEN bs[1][field]
  ELSE Max(bs[1][field], SeqMax(Tail(bs), field))

\* the pixel the back-compat rule of C4 gives for the coordinate c (in half
\* units) on an image side dim, with m the batch's largest x2 (or y2):
\* c * dim / m when dim / m > 1.1, and c unscaled otherwise
BackCompatNear(p, c, dim, m) ==
  IF 20 * dim > 11 * m THEN PixelNear(p, c * dim, m) ELSE PixelNear(p, c, 2)

\* C4 as stated: rescale_blocks_to_image scales x by imageWidth / maxX when
\* that ratio exceeds 1.1 and leaves x unscaled otherwise, and likewise y.
C4_RescaleByLargestCoordinate ==
  (entry = "rescale" /\ pc = "done" /\ blocks # <<>>
     /\ SeqMax(blocks, "norm_x2") > 0 /\ SeqMax(blocks, "norm_y2") > 0) =>
    \A i \in 1..Len(blocks) :
      LET b == Get(result)[i]
          mx == SeqMax(blocks, "norm_x2")
          my == SeqMax(blocks, "norm_y2")
      IN  /\ BackCompatNear(b.pixel_x1, b.norm_x1, image.w, mx)
          /\ BackCompatNear(b.pixel_x2, b.norm_x2, image.w, mx)
          /\ BackCompatNear(b.pixel_y1, b.norm_y1, image.h, my)
          /\ BackCompatNear(b.pixel_y2, b.norm_y2, image.h, my)

\* C4 amended: rescale_blocks_to_image multiplies every x by
\* imageWidth / 1000 and every y by imageHeight / 1000 whatever the largest
\* coordinate of the batch is: with width 800, maxX = 500 gives 400 and
\* maxX = 780 gives 624.
C4_RescaleByRange ==
  (entry = "rescale" /\ pc = "done") =>
    /\ Len(Get(result)) = Len(blocks)
    /\ \A i \in 1..Len(blocks) :
         LET b == Get(result)[i]
         IN  /\ PixelNear(b.pixel_x1, blocks[i].norm_x1 * image.w, 2 * HUNYUAN_COORD_RANGE)
             /\ PixelNear(b.pixel_y1, blocks[i].norm_y1 * image.h, 2 * HUNYUAN_COORD_RANGE)
             /\ PixelNear(b.pixel_x2, blocks[i].norm_x2 * image.w, 2 * HUNYUAN_COORD_RANGE)
             /\ PixelNear(b.pixel_y2, blocks[i].norm_y2 * image.h, 2 * HUNYUAN_COORD_RANGE)
             /\ (image.w = 800 /\ blocks[i].norm_x2 = 2 * 500) => b.pixel_x2 = Some(400)
             /\ (image.w = 800 /\ blocks[i].norm_x2 = 2 * 780) => b.pixel_x2 = Some(624)

\* a batch with maxX = 500 rescaled to an image 800 wide
C4_RescaledSmallBatch ==
  /\ entry = "rescale" /\ pc = "done" /\ image.w = 800
  /\ blocks = <<TextBlock("mid", 200, 200, 1000, 800)>>
  /\ Get(result)[1].pixel_x2 = Some(400)

\* C5: within one call of convert_blocks_to_pixels every box is converted
\* with the same pair (scale_x, scale_y), the one resolved from the image
\* size before the loop; no box is converted under a convention of its own.
C5_OneScalePerBatch ==
  scale # None =>
    /\ Get(scale) = get_scale_factors(image.w, image.h, HUNYUAN_COORD_RANGE)
    /\ \A i \in 1..Len(converted) :
         /\ Get(converted[i].pixel_x1)
              = PyInt(FloatMul(FloatFromHalves(blocks[i].norm_x1), Get(scale).x))
         /\ Get(converted[i].pixel_y1)
              = PyInt(FloatMul(FloatFromHalves(blocks[i].norm_y1), Get(scale).y))
         /\ Get(converted[i].pixel_x2)
              = PyInt(FloatMul(FloatFromHalves(blocks[i].norm_x2), Get(scale).x))
         /\ Get(converted[i].pixel_y2)
              = PyInt(FloatMul(FloatFromHalves(blocks[i].norm_y2), Get(scale).y))

\* a converted batch that mixes a box inside the unit square with one
\* outside it
C5_MixedBatchConverted ==
  /\ pc = "done" /\ entry = "convert" /\ Len(converted) = 2
  /\ UnitBatch(<<blocks[1]>>) /\ ~UnitBatch(<<blocks[2]>>)

\* C6: every rectangle an annotator (the web app's or the command-line
\* tool's) hands to the drawing primitive has ordered corners.
C6_DrawnCornersOrdered ==
  \A i \in 1..Len(drawn) : drawn[i].x1 <= drawn[i].x2 /\ drawn[i].y1 <= drawn[i].y2

C8_ConvertedBoxesCanonical ==
  \A i \in 1..Len(converted) :
    LET b == converted[i]
    IN  /\ Get(b.pixel_x1) <= Get(b.pixel_x2) /\ Get(b.pixel_y1) <= Get(b.pixel_y2)
        /\ 0 <= Get(b.pixel_x1) /\ Get(b.pixel_x2) <= image.w - 1
        /\ 0 <= Get(b.pixel_y1) /\ Get(b.pixel_y2) <= image.h - 1

\* the input blocks are as convert_blocks_to_pixels found them, and what it
\* has built so far repeats their text and normalized coordinates in order
InputsKept ==
  /\ \A i \in 1..Len(blocks) :
       /\ blocks[i].pixel_x1 = None /\ blocks[i].pixel_y1 = None
       /\ blocks[i].pixel_x2 = None /\ blocks[i].pixel_y2 = None
  /\ Len(converted) <= Len(blocks)
  /\ \A i \in 1..Len(converted) :
       /\ converted[i].text = blocks[i].text
       /\ converted[i].norm_x1 = blocks[i].norm_x1
       /\ converted[i].norm_y1 = blocks[i].norm_y1
       /\ converted[i].norm_x2 = blocks[i].norm_x2
       /\ converted[i].norm_y2 = blocks[i].norm_y2
  /\ (pc = "done" /\ entry \in {"convert", "rescale"}) =>
       Get(result) = converted /\ Len(converted) = Len(blocks)

\* C9: conversion never changes its input: the caller's blocks stay the same
\* in every step and keep no pixel coordinates, and the output is a new list
\* of the same length and order with the same text and normalized
\* coordinates.
C9_ConversionKeepsInput ==
  [][blocks' = blocks]_vars /\ []InputsKept

\* api_ocr answered for two different blocks that were converted
C9_TwoBlocksConverted ==
  /\ entry = "api_ocr" /\ pc = "done" /\ image_size # None
  /\ Len(blocks) = 2 /\ blocks[1] # blocks[2]
  /\ Len(api_blocks) = 2 /\ api_blocks[1].pixel_x1 # None

BlockLists == {blocks, converted, ann_blocks, api_blocks}

\* C10: the derived widths and heights of a TextBlock are never negative,
\* whatever the order of its corners, and neither is any width or height of
\* the /api/ocr response; a reversed box has width 0.
C10_WidthsNeverNegative ==
  /\ \A bs \in BlockLists : \A i \in 1..Len(bs) :
       /\ norm_width(bs[i]) >= 0 /\ norm_height(bs[i]) >= 0
       /\ pixel_width(bs[i]) # None => Get(pixel_width(bs[i])) >= 0
       /\ pixel_height(bs[i]) # None => Get(pixel_height(bs[i])) >= 0
       /\ bs[i].norm_x2 < bs[i].norm_x1 => norm_width(bs[i]) = 0
  /\ response # None =>
       \A i \in 1..Len(Get(response).blocks) :
         LET d == Get(response).blocks[i]
         IN  /\ d.width >= 0 /\ d.height >= 0
             /\ d.normalized.width >= 0 /\ d.normalized.height >= 0
             /\ d.pixel # None => Get(d.pixel).width >= 0 /\ Get(d.pixel).height >= 0
             /\ d.x2 < d.x1 => d.width = 0

\* a response that reports a box with reversed corners in pixels
C10_ReversedBoxReported ==
  /\ response # None
  /\ \E i \in 1..Len(Get(response).blocks) :
       LET d == Get(response).blocks[i]
       IN  d.pixel # None /\ Get(d.pixel).x2 < Get(d.pixel).x1 /\ Get(d.pixel).width = 0

(***************************************************************************)
(* parse_ocr_content: the regular expression, character by character.  A   *)
(* string is a sequence of one-character strings; a position that does not *)
(* exist is 0.                                                             *)
(***************************************************************************)
Digits == { "0", "1", "2", "3", "4", "5", "6", "7", "8", "9" }
Parens == { "(", ")" }
Whitespace == { " ", "\n" }

\* \d+ at p, greedy: the position after the run of digits that starts at p
RECURSIVE SkipDigits(_, _)
SkipDigits(c, p) ==
  IF p <= Len(c) /\ c[p] \in Digits THEN SkipDigits(c, p + 1) ELSE p

\* a number pattern that also takes "1." for a number
MatchNumberTrailingDot(c, p) ==
  IF p = 0 THEN 0
  ELSE LET a == IF p <= Len(c) /\ c[p] \in {"-", "+"} THEN p + 1 ELSE p
           b == SkipDigits(c, a)
       IN  IF b = a THEN 0
           ELSE IF b <= Len(c) /\ c[b] = "." THEN SkipDigits(c, b + 1)
           ELSE b

\* [-+]?\d+(?:\.\d+)? at p: the position after it, 0 when it does not match.
\* What follows a number in the pattern is "," or ")", so giving back digits
\* or the fraction never turns a failure into a match.
MatchNumber(c, p) ==
  IF p = 0 THEN 0
  ELSE LET a == IF p <= Len(c) /\ c[p] \in {"-", "+"} THEN p + 1 ELSE p
           b == SkipDigits(c, a)
           d == IF b <= Len(c) /\ c[b] = "." THEN SkipDigits(c, b + 1) ELSE b
       IN  IF b = a THEN 0
           ELSE IF d > b + 1 THEN d
           ELSE b

\* one literal character of the pattern at p
MatchLiteral(c, p, ch) ==
  IF p # 0 /\ p <= Len(c) /\ c[p] = ch THEN p + 1 ELSE 0

\* [^()]+? at p: the position of the first parenthesis at or after p.  The
\* group is lazy and "\(" follows it, so it can only end there.
RECURSIVE SkipText(_, _)
SkipText(c, p) ==
  IF p <= Len(c) /\ c[p] \notin Parens THEN SkipText(c, p + 1) ELSE p

\* the whole pattern tried at position s: the match (its end and the five
\* groups) or None
MatchAt(c, s) ==
  LET t  == SkipText(c, s)
      o1 == IF t > s THEN MatchLiteral(c, t, "(") ELSE 0
      n1 == MatchNumber(c, o1)
      c1 == MatchLiteral(c, n1, ",")
      n2 == MatchNumber(c, c1)
      r1 == MatchLiteral(c, n2, ")")
      c2 == MatchLiteral(c, r1, ",")
      o2 == MatchLiteral(c, c2, "(")
      n3 == MatchNumber(c, o2)
      c3 == MatchLiteral(c, n3, ",")
      n4 == MatchNumber(c, c3)
      r2 == MatchLiteral(c, n4, ")")
  IN  IF r2 = 0 THEN None
      ELSE Some([end    |-> r2,
                 groups |-> << SubSeq(c, s, t - 1), SubSeq(c, o1, n1 - 1),
                               SubSeq(c, c1, n2 - 1), SubSeq(c, o2, n3 - 1),
                               SubSeq(c, c3, n4 - 1) >>])

\* one step of pattern.finditer(content): the leftmost match that starts at
\* or after p, or None
RECURSIVE FindNext(_, _)
FindNext(c, p) ==
  IF p > Len(c) THEN None
  ELSE IF MatchAt(c, p) # None THEN MatchAt(c, p)
  ELSE FindNext(c, p + 1)

\* str.lstrip() alone
RECURSIVE StripLeft(_)
StripLeft(t) ==
  IF t # <<>> /\ t[1] \in Whitespace THEN StripLeft(Tail(t)) ELSE t

\* str.strip()
RECURSIVE Strip(_)
Strip(t) ==
  IF t # <<>> /\ t[1] \in Whitespace THEN Strip(Tail(t))
  ELSE IF t # <<>> /\ t[Len(t)] \in Whitespace THEN Strip(SubSeq(t, 1, Len(t) - 1))
  ELSE t

DigitValue(ch) == CHOOSE v \in 0..9 : ch = ToString(v)

\* int() of a run of digits
RECURSIVE DecimalNat(_)
DecimalNat(t) ==
  IF t = <<>> THEN 0
  ELSE 10 * DecimalNat(SubSeq(t, 1, Len(t) - 1)) + DigitValue(t[Len(t)])

\* float(s) for a string the number pattern matched: the float nearest to
\* the decimal, which is the correctly rounded quotient of its digits by a
\* power of ten
PyFloat(t) ==
  LET body == IF t[1] \in {"-", "+"} THEN Tail(t) ELSE t
      digs == SelectSeq(body, LAMBDA ch : ch # ".")
      dot  == IF Len(digs) = Len(body) THEN 0
              ELSE CHOOSE i \in 1..Len(body) : body[i] = "."
      k    == IF dot = 0 THEN 0 ELSE Len(body) - dot
      q    == IF k = 0 THEN FloatFromInt(DecimalNat(digs))
              ELSE FloatDivInt(FloatFromInt(DecimalNat(digs)), 10^k)
  IN  [q EXCEPT !.sign = IF t[1] = "-" THEN -1 ELSE 1]

\* a == b on floats
FloatEq(a, b) ==
  \/ a.mant = <<>> /\ b.mant = <<>>
  \/ /\ a.sign = b.sign
     /\ BigShiftLeft(a.mant, a.exp - Min(a.exp, b.exp))
          = BigShiftLeft(b.mant, b.exp - Min(a.exp, b.exp))

(***************************************************************************)
(* parse_ocr_content: inputs.  A string is put together from pieces: whole *)
(* entries TEXT(x1,y1),(x2,y2), whose text and numbers are written beside  *)
(* them, and content that is no entry.                                     *)
(***************************************************************************)
MaxPieces == 3      \* most pieces in a string

\* the float sign * n * 2^e
Dyadic(sign, n, e) == [sign |-> sign, mant |-> BigFromNat(n), exp |-> e]

\* the float nearest to 0.1: 7205759403792794 * 2^-56
Tenth == [sign |-> 1, mant |-> <<6554, 13107, 26214, 204>>, exp |-> -56]

Entry(chars, text, x1, y1, x2, y2) ==
  [chars |-> chars,
   entry |-> Some([text |-> text, x1 |-> x1, y1 |-> y1, x2 |-> x2, y2 |-> y2])]

NoEntry(chars) == [chars |-> chars, entry |-> None]

\* hello(1,2),(3,4)
HelloPiece ==
  Entry(<<"h", "e", "l", "l", "o", "(", "1", ",", "2", ")", ",", "(", "3",
          ",", "4", ")">>,
        <<"h", "e", "l", "l", "o">>,
        Dyadic(1, 1, 0), Dyadic(1, 2, 0), Dyadic(1, 3, 0), Dyadic(1, 4, 0))

\*  b c (-1.5,+2),(4.25,0.1)
SpacedPiece ==
  Entry(<<" ", "b", " ", "c", " ", "(", "-", "1", ".", "5", ",", "+", "2",
          ")", ",", "(", "4", ".", "2", "5", ",", "0", ".", "1", ")">>,
        <<" ", "b", " ", "c", " ">>,
        Dyadic(-1, 3, -1), Dyadic(1, 2, 0), Dyadic(1, 17, -2), Tenth)

\* a line break: \n
NewlinePiece ==
  NoEntry(<<"\n">>)

\* an entry cut short: x(1,2),(3
TruncatedPiece ==
  NoEntry(<<"x", "(", "1", ",", "2", ")", ",", "(", "3">>)

\* no comma between the corners: y(1,2)(3,4)
NoCommaPiece ==
  NoEntry(<<"y", "(", "1", ",", "2", ")", "(", "3", ",", "4", ")">>)

\* no text before the corners: (5,6),(7,8)
NoTextPiece ==
  NoEntry(<<"(", "5", ",", "6", ")", ",", "(", "7", ",", "8", ")">>)

\* a number with nothing after its point: a(1.,2),(3,4)
HalfNumberPiece ==
  NoEntry(<<"a", "(", "1", ".", ",", "2", ")", ",", "(", "3", ",", "4",
            ")">>)

\* plain words: no
WordsPiece ==
  NoEntry(<<"n", "o">>)

Pieces ==
  { HelloPiece,
    SpacedPiece,
    NewlinePiece,
    TruncatedPiece,
    NoCommaPiece,
    NoTextPiece,
    HalfNumberPiece,
    WordsPiece }

PieceLists == UNION { [1..n -> Pieces] : n \in 0..MaxPieces }

RECURSIVE Concat(_)
Concat(ps) ==
  IF ps = <<>> THEN <<>> ELSE Head(ps).chars \o Concat(Tail(ps))

(***************************************************************************)
(* parse_ocr_content(content), one finditer match at a time                *)
(***************************************************************************)
\* float() takes the string: a sign at most, then digits with at most one
\* point among them (strings over the characters of the pieces)
PyFloatAccepts(t) ==
  LET body == IF t # <<>> /\ t[1] \in {"-", "+"} THEN Tail(t) ELSE t
  IN  /\ \A i \in 1..Len(body) : body[i] \in Digits \cup {"."}
      /\ Cardinality({ i \in 1..Len(body) : body[i] = "." }) <= 1
      /\ \E i \in 1..Len(body) : body[i] \in Digits

InitParse ==
  /\ PipeIdle /\ ConvIdle /\ ScanIdle /\ ImgIdle /\ ApiIdle /\ CliIdle /\ SetIdle
  /\ pieces \in PieceLists
  /\ content = Concat(pieces)
  /\ ppos = 1 /\ parsed = <<>> /\ ppc = "finditer"

\* lines 117-127: the next match; float() of a group it does not take raises
\* ValueError out of parse_ocr_content
ParseMatch ==
  /\ ppc = "finditer"
  /\ FindNext(content, ppos) # None
  /\ LET m == Get(FindNext(content, ppos))
     IN  IF \A i \in 2..5 : PyFloatAccepts(m.groups[i])
         THEN /\ parsed' = Append(parsed,
                              TextBlock(Strip(m.groups[1]),
                                        PyFloat(m.groups[2]), PyFloat(m.groups[3]),
                                        PyFloat(m.groups[4]), PyFloat(m.groups[5])))
              /\ ppos' = m.end
              /\ ppc' = ppc
         ELSE /\ ppc' = "raised"
              /\ UNCHANGED <<parsed, ppos>>
  /\ UNCHANGED <<content, pieces, pipeVars, convVars, scanVars, imgVars, apiVars, cliVars,
                 setVars>>

\* line 129: no further match, return blocks
ParseReturn ==
  /\ ppc = "finditer"
  /\ FindNext(content, ppos) = None
  /\ ppc' = "returned"
  /\ UNCHANGED <<content, pieces, ppos, parsed, pipeVars, convVars, scanVars, imgVars, apiVars,
                 cliVars, setVars>>

NextParse ==
  \/ ParseMatch
  \/ ParseReturn

SpecParse == InitParse /\ [][NextParse]_vars

(***************************************************************************)
(* Claims about parse_ocr_content (checked under SpecParse)                *)
(***************************************************************************)
\* t is a number as the entries write them: an optional sign, digits, and
\* optionally a point followed by digits
IsNumber(t) ==
  LET body == IF t # <<>> /\ t[1] \in {"-", "+"} THEN Tail(t) ELSE t
  IN  /\ body # <<>>
      /\ \A i \in 1..Len(body) : body[i] \in Digits \cup {"."}
      /\ Cardinality({ i \in 1..Len(body) : body[i] = "." }) <= 1
      /\ body[1] \in Digits /\ body[Len(body)] \in Digits

\* t is two numbers with a comma between them
IsPair(t) ==
  \E i \in 1..Len(t) :
    t[i] = "," /\ IsNumber(SubSeq(t, 1, i - 1)) /\ IsNumber(SubSeq(t, i + 1, Len(t)))

\* t has the shape TEXT(x1,y1),(x2,y2), TEXT without parentheses
IsEntry(t) ==
  \E a \in 2..Len(t) :
    /\ t[a] = "("
    /\ \A i \in 1..(a - 1) : t[i] \notin Parens
    /\ \E b \in (a + 1)..(Len(t) - 3) :
         /\ t[b] = ")" /\ t[b + 1] = "," /\ t[b + 2] = "(" /\ t[Len(t)] = ")"
         /\ IsPair(SubSeq(t, a + 1, b - 1))
         /\ IsPair(SubSeq(t, b + 3, Len(t) - 1))

\* some stretch of c is an entry (and then so is the stretch that keeps one
\* character of its text)
ContainsEntry(c) ==
  \E s \in 1..Len(c) :
    /\ c[s] \notin Parens
    /\ s < Len(c) /\ c[s + 1] = "("
    /\ \E e \in (s + 1)..Len(c) : c[e] = ")" /\ IsEntry(SubSeq(c, s, e))

\* C11: for a string that holds no entry of the shape TEXT(x1,y1),(x2,y2),
\* malformed and truncated entries included, parse_ocr_content returns the
\* empty list and raises nothing.
C11_NoEntryNoBlock ==
  ~ContainsEntry(content) =>
     /\ ppc # "raised"
     /\ parsed = <<>>

\* a string of malformed pieces has been scanned to its end
C11_MalformedScanned ==
  /\ ppc = "returned" /\ parsed = <<>>
  /\ Len(pieces) = MaxPieces
  /\ \E i \in 1..Len(pieces) : pieces[i] = HalfNumberPiece
  /\ \E i \in 1..Len(pieces) : pieces[i] = TruncatedPiece

\* the entries among the pieces, in order
EntriesOf(ps) == SelectSeq(ps, LAMBDA p : p.entry # None)

\* the pieces between the entry before pieces[j] (or the start) and pieces[j]
RECURSIVE GapBefore(_, _)
GapBefore(ps, j) ==
  IF j = 1 \/ ps[j - 1].entry # None THEN <<>>
  ELSE GapBefore(ps, j - 1) \o ps[j - 1].chars

\* the end of t after its last parenthesis
RECURSIVE AfterLastParen(_)
AfterLastParen(t) ==
  IF t = <<>> \/ t[Len(t)] \in Parens THEN <<>>
  ELSE Append(AfterLastParen(SubSeq(t, 1, Len(t) - 1)), t[Len(t)])

\* no stretch of pieces without an entry makes up an entry
GapsHoldNoEntry(ps) ==
  \A i \in 1..Len(ps) : \A j \in i..Len(ps) :
    (\A k \in i..j : ps[k].entry = None) => ~ContainsEntry(Concat(SubSeq(ps, i, j)))

Trimmed(t) == t = <<>> \/ (t[1] \notin Whitespace /\ t[Len(t)] \notin Whitespace)

\* the index among the pieces of the n-th entry
EntryIndex(ps, n) ==
  CHOOSE j \in 1..Len(ps) :
    ps[j].entry # None /\ Len(EntriesOf(SubSeq(ps, 1, j))) = n

\* C12: for a string of k well-formed entries, with content that is no entry
\* between them, parse_ocr_content returns exactly k blocks in the order of
\* the entries, each with its text trimmed (the entry's text, after whatever
\* parenthesis-free content runs into it) and its coordinates equal to the
\* entry's numbers; "hello(1,2),(3,4)" gives one block, "hello", (1,2,3,4).
C12_OneBlockPerEntry ==
  (ppc = "returned" /\ GapsHoldNoEntry(pieces)) =>
     /\ Len(parsed) = Len(EntriesOf(pieces))
     /\ \A n \in 1..Len(parsed) :
          LET j == EntryIndex(pieces, n)
              e == Get(pieces[j].entry)
          IN  /\ Trimmed(parsed[n].text)
              /\ parsed[n].text = Strip(AfterLastParen(GapBefore(pieces, j)) \o e.text)
              /\ FloatEq(parsed[n].norm_x1, e.x1) /\ FloatEq(parsed[n].norm_y1, e.y1)
              /\ FloatEq(parsed[n].norm_x2, e.x2) /\ FloatEq(parsed[n].norm_y2, e.y2)
     /\ pieces = <<HelloPiece>> =>
          parsed = << TextBlock(<<"h", "e", "l", "l", "o">>, FloatFromInt(1),
                                FloatFromInt(2), FloatFromInt(3), FloatFromInt(4)) >>

\* two entries with a malformed piece between them, both returned
C12_TwoEntriesAroundJunk ==
  /\ ppc = "returned" /\ Len(parsed) = 2
  /\ pieces = <<SpacedPiece, NoCommaPiece, HelloPiece>>

(***************************************************************************)
(* The annotators on batches longer than the palette                       *)
(***************************************************************************)
MaxLongBatch == 10  \* longest batch handed to an annotator here

LongBatches ==
  { [i \in 1..n |-> b] : n \in 0..MaxLongBatch,
                         b \in { TextBlock("mid", 200, 200, 1000, 800),
                                 TextBlock("rev", 100, 20, 20, 180) } }

InitLong ==
  /\ ConvIdle /\ ParseIdle /\ ScanIdle /\ ImgIdle /\ ApiIdle /\ SetIdle
  /\ entry \in { "annotate", "cli" }
  /\ IF entry = "cli" THEN CliCalled ELSE CliIdle
  /\ pc = "start"
  /\ blocks \in LongBatches
  /\ image \in Images
  /\ scale = None /\ converted = <<>> /\ ret = None /\ result = None
  /\ ann_blocks = <<>> /\ drawn = <<>> /\ api_blocks = <<>> /\ image_size = None
  /\ api_scale = None /\ annotated_image = None /\ response = None

NextLong ==
  \/ CallFetchAndAnnotateImage
  \/ ConvertStep
  \/ ConvertReturnToAnnotate
  \/ DrawStep
  \/ AnnotateReturnToCaller
  \/ CliLoad
  \/ CliDrawStep
  \/ CliSave

SpecLong == InitLong /\ [][NextLong]_vars

(***************************************************************************)
(* Claims about the palette (checked under SpecLong)                       *)
(***************************************************************************)
\* the palette of the annotator under way
Palette == IF entry = "cli" THEN COLORS ELSE COLOR_PALETTE

\* C13: both annotators colour by position, cyclically: the rectangle with
\* 1-based index i has the colour at 0-based position (i - 1) mod len of the
\* palette, so index 1 has the first colour and index len + 1 has it again,
\* whatever the number of blocks.
C13_ColorsCycle ==
  /\ \A i \in 1..Len(drawn) :
       \E k \in 0..(Len(Palette) - 1) :
         /\ (i - 1 - k) % Len(Palette) = 0
         /\ drawn[i].color = Palette[k + 1]
  /\ Len(drawn) >= 1 => drawn[1].color = Palette[1]
  /\ Len(drawn) >= Len(Palette) + 1 => drawn[Len(Palette) + 1].color = Palette[1]

\* the web annotator has drawn one rectangle more than the palette has
\* colours, the last of them in the first colour
C13_PaletteWrapped ==
  /\ entry = "annotate" /\ pc = "done"
  /\ Len(drawn) = Len(COLOR_PALETTE) + 1
  /\ drawn[Len(drawn)].color = drawn[1].color

(***************************************************************************)
(* Claims about the image object handed to fetch_and_annotate_image        *)
(* (checked under Spec)                                                    *)
(***************************************************************************)
\* C14: an image object the caller passes to fetch_and_annotate_image is
\* not modified on any path, the one where EXIF transposition fails
\* included: every rectangle is drawn on another raster.
C14_SuppliedImageUntouched ==
  supplied => caller_marks = 0

(***************************************************************************)
(* api_ocr from the request on (lines 241-263, 368-371); after the OCR     *)
(* answer is parsed the actions of the pipeline take over                  *)
(***************************************************************************)
\* values of image_url and of prompt in the request body
UrlInputs ==
  { Absent, Null, Str(<<>>), Str(<<" ">>), Str(UrlChars),
    Str(<<" ">> \o UrlChars \o <<"\n">>), Number("7"), Number("0") }

PromptInputs == { Absent, Str(<<"p">>), Number("7") }

\* request bodies: a JSON object, no JSON at all, a non-empty JSON array,
\* an empty JSON array
Bodies ==
  { [kind |-> "object", image_url |-> u, prompt |-> q] :
      u \in UrlInputs, q \in PromptInputs }
  \cup { [kind |-> k, image_url |-> Absent, prompt |-> Absent] :
           k \in { "none", "array", "empty_array" } }

\* what the OCR endpoint does with the one request it gets
OcrOutcomes == { "ok", "http_error", "connection_error", "timeout", "bad_json" }

\* the batches parse_ocr_content returns here
ApiBatches ==
  UNION { [1..n -> { TextBlock("rev", 100, 20, 20, 180),
                     TextBlock("wide", 20, 20, 1560, 1180) }] : n \in 0..MaxBlocks }

\* (status, error) of a JSON answer; the error is a prefix and a message
Answer(status, prefix, message) ==
  Some([status |-> status, error |-> [prefix |-> prefix, message |-> message]])

\* bool(v) for a JSON value
Truthy(v) ==
  \/ v.type = "string" /\ v.chars # <<>>
  \/ v.type = "number" /\ v.chars # <<"0">>

\* (v or "").strip(): the string, or None where v has no strip method and
\* AttributeError is raised
StrippedOrRaise(v) ==
  IF ~Truthy(v) THEN Some(<<>>)
  ELSE IF v.type = "string" THEN Some(Strip(v.chars))
  ELSE None

\* get_json(force=True, silent=True) or {} has a get method
HasGet(body) == body.kind # "array"

InitApi ==
  /\ ConvIdle /\ ParseIdle /\ ScanIdle /\ ImgIdle /\ CliIdle
  /\ entry = "api_ocr" /\ pc = "request"
  /\ request \in { Some(b) : b \in Bodies }
  /\ ocr_outcome \in OcrOutcomes
  /\ image \in Images
  /\ settings_file \in { NoFile, FileOf(Dump([image_url |-> Str(<<"o", "l", "d">>),
                                              prompt |-> Str(DEFAULT_PROMPT)])) }
  /\ savers = <<>> /\ loaded = None
  /\ image_url = None /\ prompt = None /\ steps = <<>>
  /\ ocr_calls = 0 /\ img_fetches = 0 /\ http = None
  /\ blocks = <<>> /\ scale = None /\ converted = <<>> /\ ret = None /\ result = None
  /\ ann_blocks = <<>> /\ drawn = <<>> /\ api_blocks = <<>> /\ image_size = None
  /\ api_scale = None /\ annotated_image = None /\ response = None

\* lines 241-243
ApiReadBody ==
  /\ pc = "request"
  /\ HasGet(Get(request))
  /\ StrippedOrRaise(Get(request).image_url) # None
  /\ StrippedOrRaise(Get(request).prompt) # None
  /\ image_url' = StrippedOrRaise(Get(request).image_url)
  /\ prompt' = StrippedOrRaise(Get(request).prompt)
  /\ pc' = "check_url"
  /\ UNCHANGED <<entry, blocks, image, scale, converted, ret, result, ann_blocks, drawn,
                 api_blocks, image_size, api_scale, annotated_image, response, convVars,
                 parseVars, scanVars, imgVars, cliVars, setVars, request, steps, ocr_calls,
                 img_fetches, ocr_outcome, http>>

\* lines 241-243 raise AttributeError; they stand before the try of line
\* 252, so the exception leaves api_ocr
ApiReadBodyRaises ==
  /\ pc = "request"
  /\ \/ ~HasGet(Get(request))
     \/ StrippedOrRaise(Get(request).image_url) = None
     \/ StrippedOrRaise(Get(request).prompt) = None
  /\ pc' = "raised"
  /\ UNCHANGED <<entry, blocks, image, scale, converted, ret, result, ann_blocks, drawn,
                 api_blocks, image_size, api_scale, annotated_image, response, convVars,
                 parseVars, scanVars, imgVars, cliVars, setVars, apiVars>>

\* lines 245-246
ApiRejectEmptyUrl ==
  /\ pc = "check_url"
  /\ Get(image_url) = <<>>
  /\ http' = Answer(400, "", "image_url is required")
  /\ pc' = "done"
  /\ UNCHANGED <<entry, blocks, image, scale, converted, ret, result, ann_blocks, drawn,
                 api_blocks, image_size, api_scale, annotated_image, response, convVars,
                 parseVars, scanVars, imgVars, cliVars, setVars, request, image_url, prompt, steps,
                 ocr_calls, img_fetches, ocr_outcome>>

\* lines 249-251: save_settings as a whole (it returns False when open or
\* json.dump raises: the file is then as it was, or cut off after the
\* pieces written so far), then steps
ApiSaveSettings ==
  /\ pc = "check_url"
  /\ Get(image_url) # <<>>
  /\ LET doc == Dump([image_url |-> Str(Get(image_url)),
                      prompt |-> Str(IF Get(prompt) # <<>> THEN Get(prompt)
                                     ELSE DEFAULT_PROMPT)])
     IN  \/ settings_file' = FileOf(doc)
         \/ settings_file' = settings_file
         \/ \E k \in 0..(Len(doc) - 1) : settings_file' = FileOf(SubSeq(doc, 1, k))
  /\ steps' = <<"Received request">>
  /\ pc' = "call_ocr"
  /\ UNCHANGED <<entry, blocks, image, scale, converted, ret, result, ann_blocks, drawn,
                 api_blocks, image_size, api_scale, annotated_image, response, convVars,
                 parseVars, scanVars, imgVars, cliVars, savers, loaded, request, image_url, prompt,
                 ocr_calls, img_fetches, ocr_outcome, http>>

\* lines 253-263: call_ocr posts once and returns the JSON; blocks are parsed
ApiCallOcr ==
  /\ pc = "call_ocr" /\ ocr_outcome = "ok"
  /\ steps' = steps \o <<"Calling OCR endpoint", "Parsing OCR response">>
  /\ ocr_calls' = ocr_calls + 1
  /\ blocks' \in ApiBatches
  /\ pc' = "start"
  /\ UNCHANGED <<entry, image, scale, converted, ret, result, ann_blocks, drawn,
                 api_blocks, image_size, api_scale, annotated_image, response, convVars,
                 parseVars, scanVars, imgVars, cliVars, setVars, request, image_url, prompt,
                 img_fetches, ocr_outcome, http>>

\* line 191: raise_for_status raises requests.HTTPError; lines 368-369
ApiOcrHttpError ==
  /\ pc = "call_ocr" /\ ocr_outcome = "http_error"
  /\ steps' = Append(steps, "Calling OCR endpoint")
  /\ ocr_calls' = ocr_calls + 1
  /\ http' = Answer(502, "OCR request failed", ocr_outcome)
  /\ pc' = "done"
  /\ UNCHANGED <<entry, blocks, image, scale, converted, ret, result, ann_blocks, drawn,
                 api_blocks, image_size, api_scale, annotated_image, response, convVars,
                 parseVars, scanVars, imgVars, cliVars, setVars, request, image_url, prompt,
                 img_fetches, ocr_outcome>>

\* line 188 raises requests.ConnectionError or requests.Timeout, or line 192
\* raises on a body that is no JSON: none of them is an HTTPError; lines
\* 370-371
ApiOcrOtherError ==
  /\ pc = "call_ocr" /\ ocr_outcome \in { "connection_error", "timeout", "bad_json" }
  /\ steps' = Append(steps, "Calling OCR endpoint")
  /\ ocr_calls' = ocr_calls + 1
  /\ http' = Answer(500, "", ocr_outcome)
  /\ pc' = "done"
  /\ UNCHANGED <<entry, blocks, image, scale, converted, ret, result, ann_blocks, drawn,
                 api_blocks, image_size, api_scale, annotated_image, response, convVars,
                 parseVars, scanVars, imgVars, cliVars, setVars, request, image_url, prompt,
                 img_fetches, ocr_outcome>>

NextApi ==
  \/ ApiReadBody
  \/ ApiReadBodyRaises
  \/ ApiRejectEmptyUrl
  \/ ApiSaveSettings
  \/ ApiCallOcr
  \/ ApiOcrHttpError
  \/ ApiOcrOtherError
  \/ ApiNoBlocks
  \/ ApiFetchImage
  \/ ApiFetchImageFails
  \/ ConvertStep
  \/ ConvertReturnToApi
  \/ ApiRender
  \/ ConvertReturnToAnnotate
  \/ DrawStep
  \/ ApiAnnotateFails
  \/ AnnotateReturnToApi
  \/ ApiRespond

SpecApi == InitApi /\ [][NextApi]_vars

(***************************************************************************)
(* Claims about /api/ocr (checked under SpecApi)                           *)
(***************************************************************************)
\* C15: every failure of the upstream OCR call, a network error (connection
\* failure, timeout) as well as a non-2xx status, is answered by /api/ocr as
\* "OCR request failed" with the underlying message, never as the generic
\* error.
C15_OcrFailureDistinct ==
  (pc = "done" /\ ocr_outcome \in { "http_error", "connection_error", "timeout" }
     /\ ocr_calls = 1) =>
     /\ http # None
     /\ Get(http).error.prefix = "OCR request failed"
     /\ Get(http).error.message = ocr_outcome

\* C16: no outbound call is retried: within one request the OCR endpoint is
\* called at most once and the image is downloaded at most once, and after a
\* failed OCR call nothing more is sent.
C16_NoRetry ==
  /\ ocr_calls <= 1
  /\ img_fetches <= 1
  /\ img_fetches = 1 => (ocr_calls = 1 /\ ocr_outcome = "ok")
  /\ (ocr_calls = 1 /\ ocr_outcome # "ok") => (pc = "done" /\ img_fetches = 0)

\* a request that went all the way: one OCR call, one download, boxes drawn
C16_FullRequestServed ==
  /\ pc = "done" /\ ocr_calls = 1 /\ img_fetches = 1
  /\ annotated_image # None /\ Len(drawn) = MaxBlocks

\* the except branch of lines 295-299 was taken
FellBack == \E i \in 1..Len(steps) : steps[i] = "Warning: Could not fetch image"

\* C17: when the OCR call succeeds with at least one block and fetching,
\* decoding or annotating the image fails, /api/ocr still answers 200, with
\* every parsed block in order carrying its normalized coordinates and no
\* pixel coordinates, image_size null and no annotated image.
C17_FallbackAnswer ==
  (pc = "done" /\ blocks # <<>> /\ FellBack) =>
     /\ http # None /\ Get(http).status = 200
     /\ response # None
     /\ Get(response).image_size = None
     /\ Get(response).image_with_boxes = None
     /\ Len(Get(response).blocks) = Len(blocks)
     /\ \A i \in 1..Len(blocks) :
          LET b == Get(response).blocks[i]
          IN  /\ b.index = i /\ b.text = blocks[i].text
              /\ b.pixel = None
              /\ b.normalized.x1 = blocks[i].norm_x1 /\ b.normalized.y1 = blocks[i].norm_y1
              /\ b.normalized.x2 = blocks[i].norm_x2 /\ b.normalized.y2 = blocks[i].norm_y2
              /\ b.x1 = blocks[i].norm_x1 /\ b.y1 = blocks[i].norm_y1
              /\ b.x2 = blocks[i].norm_x2 /\ b.y2 = blocks[i].norm_y2

\* the annotator failed after the blocks were converted and one box drawn
C17_FailedWhileDrawing ==
  /\ pc = "done" /\ FellBack /\ Len(blocks) = MaxBlocks
  /\ Len(drawn) = 1 /\ converted # <<>>

\* C18: whatever the request body (a JSON body that is no object, an
\* image_url or prompt that is no string), every failure while /api/ocr is
\* handled is caught by the handler and answered with a JSON error object:
\* no exception leaves api_ocr.
C18_NothingEscapes ==
  /\ pc # "raised"
  /\ pc = "done" => http # None

(***************************************************************************)
(* The command-line tool run as a script (lines 165-229) around            *)
(* draw_blocks                                                             *)
(***************************************************************************)
\* the arguments given, the JSON file (missing, no JSON, a list, a dict with
\* or without a known key, another JSON value), the coordinate fields of its
\* compartments, the image file, whether image.save succeeds, the name of
\* the image and the value of -o/--output (lines 203-206; None when absent)
CliInputs ==
  [ args       : { "both", "no_image", "no_json" },
    json_file  : { "missing", "invalid", "list", "dict_detections", "dict_unknown",
                   "scalar" },
    fields     : { "xy", "box_2d", "missing" },
    image_file : { "ok", "missing", "unreadable" },
    save       : { "ok", "fails" },
    image_filename : { ShelfJpg, DottedPng },
    output     : { None, Some(OutJpg), Some(ShelfAnnotatedJpg) } ]

\* the compartments of the JSON file
CliBatches ==
  UNION { [1..n -> { TextBlock("mid", 200, 200, 1000, 800),
                     TextBlock("rev", 100, 20, 20, 180) }] : n \in 0..MaxBlocks }

InitCli ==
  /\ ConvIdle /\ ParseIdle /\ ScanIdle /\ ImgIdle /\ ApiIdle /\ SetIdle
  /\ entry = "cli" /\ pc = "main"
  /\ cli_in \in { Some(i) : i \in CliInputs }
  /\ exit_code = None /\ written = FALSE /\ stdout = None
  /\ blocks \in CliBatches
  /\ image \in Images
  /\ scale = None /\ converted = <<>> /\ ret = None /\ result = None
  /\ ann_blocks = <<>> /\ drawn = <<>> /\ api_blocks = <<>> /\ image_size = None
  /\ api_scale = None /\ annotated_image = None /\ response = None

\* sys.exit(code) after print(message)
CliExit(code, message) ==
  /\ stdout' = Some(message)
  /\ exit_code' = Some(code)
  /\ pc' = "exited"
  /\ UNCHANGED <<entry, blocks, image, scale, converted, ret, result, ann_blocks, drawn,
                 api_blocks, image_size, api_scale, annotated_image, response, convVars,
                 parseVars, scanVars, imgVars, apiVars, setVars, cli_in, written>>

\* lines 215-218: parser.error prints the usage and exits with 2
CliUsageError ==
  /\ entry = "cli" /\ pc = "main"
  /\ Get(cli_in).args # "both"
  /\ CliExit(2, "usage")

\* line 222: draw_blocks(image_file, json_file) is called
CliMain ==
  /\ entry = "cli" /\ pc = "main"
  /\ Get(cli_in).args = "both"
  /\ pc' = "start"
  /\ UNCHANGED <<entry, blocks, image, scale, converted, ret, result, ann_blocks, drawn,
                 api_blocks, image_size, api_scale, annotated_image, response, convVars,
                 extVars>>

\* line 53 (open) or lines 75-76 raise FileNotFoundError: lines 224-226
CliFileNotFound ==
  /\ entry = "cli" /\ pc = "start" /\ exit_code = None
  /\ \/ Get(cli_in).json_file = "missing"
     \/ /\ Get(cli_in).json_file \in { "list", "dict_detections" }
        /\ Get(cli_in).image_file = "missing"
  /\ CliExit(1, "Error")

\* line 54 (json.load), lines 69-71 (ValueError) or line 78 (Image.open)
\* raise: lines 227-229
CliLoadRaises ==
  /\ entry = "cli" /\ pc = "start" /\ exit_code = None
  /\ \/ Get(cli_in).json_file \in { "invalid", "dict_unknown", "scalar" }
     \/ /\ Get(cli_in).json_file \in { "list", "dict_detections" }
        /\ Get(cli_in).image_file = "unreadable"
  /\ CliExit(1, "Error")

\* a compartment without its coordinates is drawn all the same
CliFieldMissingDrawn ==
  /\ pc = "cli_loop" /\ Len(drawn) < Len(blocks)
  /\ Get(cli_in).fields = "missing"
  /\ drawn' = Append(drawn, CliRectangle(Len(drawn) + 1, blocks[Len(drawn) + 1],
                                         image.w, image.h))
  /\ UNCHANGED <<entry, pc, blocks, image, scale, converted, ret, result, ann_blocks,
                 api_blocks, image_size, api_scale, annotated_image, response, convVars,
                 extVars>>

\* lines 119-122: a compartment without box_2d and without x1 raises
\* KeyError: lines 227-229
CliFieldMissing ==
  /\ pc = "cli_loop" /\ Len(drawn) < Len(blocks)
  /\ Get(cli_in).fields = "missing"
  /\ CliExit(1, "Error")

\* line 145: draw.rectangle raises ValueError for a box with x2 < x1 or
\* y2 < y1 where the imaging library checks the order (others draw it, which
\* is CliDrawStep): lines 227-229
CliDrawRaises ==
  /\ pc = "cli_loop" /\ Len(drawn) < Len(blocks)
  /\ Get(cli_in).fields # "missing"
  /\ LET r == CliRectangle(Len(drawn) + 1, blocks[Len(drawn) + 1], image.w, image.h)
     IN  r.x2 < r.x1 \/ r.y2 < r.y1
  /\ CliExit(1, "Error")

\* line 158 raises: lines 227-229
CliSaveFails ==
  /\ pc = "cli_loop" /\ Len(drawn) = Len(blocks)
  /\ Get(cli_in).save = "fails"
  /\ CliExit(1, "Error")

\* line 223, then the script ends
CliMainSucceeds ==
  /\ entry = "cli" /\ pc = "done"
  /\ CliExit(0, "Success! Annotated image saved.")

NextCli ==
  \/ CliUsageError
  \/ CliMain
  \/ CliFileNotFound
  \/ CliLoadRaises
  \/ CliLoad
  \/ CliDrawStep
  \/ CliFieldMissing
  \/ CliDrawRaises
  \/ CliSave
  \/ CliSaveFails
  \/ CliMainSucceeds

SpecCli == InitCli /\ [][NextCli]_vars

(***************************************************************************)
(* Claims about the command-line tool (checked under SpecCli)              *)
(***************************************************************************)
\* the run meets one of the errors the claim lists: a missing image or JSON
\* file, JSON that does not decode or has no recognized shape, a compartment
\* without coordinates
ListedError ==
  LET i == Get(cli_in)
  IN  /\ i.args = "both"
      /\ \/ i.json_file \in { "missing", "invalid", "dict_unknown", "scalar" }
         \/ i.image_file = "missing"
         \/ i.fields = "missing" /\ blocks # <<>>

MaxSaves == 2       \* save_settings calls in one run

SettingsDocs ==
  { [image_url |-> Str(UrlChars), prompt |-> Str(DEFAULT_PROMPT)],
    [image_url |-> Str(<<"n", "e", "w">>), prompt |-> Str(<<"p">>)] }

\* what a gap left by another writer's truncation reads as
Hole == [part |-> "\\0", value |-> Null]

\* f.write(piece) at the 1-based piece offset pos
WriteAt(data, pos, piece) ==
  IF pos <= Len(data) THEN [data EXCEPT ![pos] = piece]
  ELSE data \o [i \in 1..(pos - 1 - Len(data)) |-> Hole] \o <<piece>>

\* json.load takes the content: it is one whole document
IsDocument(data) ==
  /\ Len(data) = Len(Dump([image_url |-> Null, prompt |-> Null]))
  /\ \A i \in 1..Len(data) :
       data[i].part = Dump([image_url |-> Null, prompt |-> Null])[i].part

\* {}
EmptySettings == [image_url |-> Absent, prompt |-> Absent]

\* what load_settings returns for the file (lines 74-80), with whether it
\* found a file
Load(file) ==
  [found    |-> file.exists,
   settings |-> IF file.exists /\ IsDocument(file.data)
                THEN [image_url |-> file.data[2].value, prompt |-> file.data[3].value]
                ELSE EmptySettings]

InitSettings ==
  /\ PipeIdle /\ ConvIdle /\ ParseIdle /\ ScanIdle /\ ImgIdle /\ ApiIdle /\ CliIdle
  /\ settings_file \in { NoFile,
                         FileOf(Dump([image_url |-> Str(<<"o", "l", "d">>),
                                      prompt |-> Str(DEFAULT_PROMPT)])) }
  /\ savers = <<>>
  /\ loaded = None

\* line 86: open(SETTINGS_FILE, "w") creates the file or empties it
SaveOpen ==
  /\ Len(savers) < MaxSaves
  /\ \E d \in SettingsDocs :
       savers' = Append(savers, [doc |-> Dump(d), at |-> 0, state |-> "writing"])
  /\ settings_file' = FileOf(<<>>)
  /\ UNCHANGED <<loaded, pipeVars, convVars, parseVars, scanVars, imgVars, apiVars, cliVars>>

\* line 86 raises (the file cannot be opened): lines 89-90
SaveOpenFails ==
  /\ Len(savers) < MaxSaves
  /\ \E d \in SettingsDocs :
       savers' = Append(savers, [doc |-> Dump(d), at |-> 0, state |-> "returned False"])
  /\ UNCHANGED <<settings_file, loaded, pipeVars, convVars, parseVars, scanVars, imgVars, apiVars,
                 cliVars>>

\* line 87: json.dump writes the next piece
SaveWrite ==
  /\ \E i \in 1..Len(savers) :
       /\ savers[i].state = "writing"
       /\ savers[i].at < Len(savers[i].doc)
       /\ settings_file' = FileOf(WriteAt(settings_file.data, savers[i].at + 1,
                                          savers[i].doc[savers[i].at + 1]))
       /\ savers' = [savers EXCEPT ![i].at = @ + 1]
  /\ UNCHANGED <<loaded, pipeVars, convVars, parseVars, scanVars, imgVars, apiVars, cliVars>>

\* line 87 raises at the next piece (a string the file's encoding rejects,
\* a full disk): the file is closed as it is, lines 89-90
SaveWriteFails ==
  /\ \E i \in 1..Len(savers) :
       /\ savers[i].state = "writing"
       /\ savers[i].at < Len(savers[i].doc)
       /\ savers' = [savers EXCEPT ![i].state = "returned False"]
  /\ UNCHANGED <<settings_file, loaded, pipeVars, convVars, parseVars, scanVars, imgVars, apiVars,
                 cliVars>>

\* line 88: everything is written, return True
SaveReturn ==
  /\ \E i \in 1..Len(savers) :
       /\ savers[i].state = "writing"
       /\ savers[i].at = Len(savers[i].doc)
       /\ savers' = [savers EXCEPT ![i].state = "returned True"]
  /\ UNCHANGED <<settings_file, loaded, pipeVars, convVars, parseVars, scanVars, imgVars, apiVars,
                 cliVars>>

\* load_settings()
LoadSettings ==
  /\ loaded' = Some(Load(settings_file))
  /\ UNCHANGED <<settings_file, savers, pipeVars, convVars, parseVars, scanVars, imgVars, apiVars,
                 cliVars>>

NextSettings ==
  \/ SaveOpen
  \/ SaveOpenFails
  \/ SaveWrite
  \/ SaveWriteFails
  \/ SaveReturn
  \/ LoadSettings

SpecSettings == InitSettings /\ [][NextSettings]_vars

(***************************************************************************)
(* Claims about the settings file (checked under SpecSettings)             *)
(***************************************************************************)
\* C20: the settings document is written atomically: at every point of
\* every interleaving of save_settings and load_settings, a failure in the
\* middle of a write included, the file holds a whole document, and
\* load_settings never reads an empty or partly written one.
C20_SettingsFileWhole ==
  /\ settings_file.exists => IsDocument(settings_file.data)
  /\ (loaded # None /\ Get(loaded).found) => Get(loaded).settings # EmptySettings

\* ---------------------------------------------------------------------------
\* C21: the file the CLI tool writes is named by -o/--output when that
\* option is supplied, and <image stem>_annotated.jpg only when it is not
C21_OutputOptionHonoured ==
  (entry = "cli" /\ written) =>
    LET in == Get(cli_in)
    IN  /\ in.output # None => result = in.output
        /\ in.output = None =>
              result = Some(Stem(in.image_filename)
                            \o <<"_", "a", "n", "n", "o", "t", "a", "t", "e", "d", ".",
                                 "j", "p", "g">>)

(***************************************************************************)
(* api_ocr from the parsed blocks on, for batches longer than the palette  *)
(***************************************************************************)
\* what parse_ocr_content returned: two kinds of block in turn
ApiLongBatches ==
  { [i \in 1..n |-> IF i % 2 = k THEN TextBlock("rev", 100, 20, 20, 180)
                                  ELSE TextBlock("wide", 20, 20, 1560, 1180)] :
      n \in 0..MaxLongBatch, k \in 0..1 }

\* api_ocr after line 263
InitApiLong ==
  /\ ConvIdle /\ ParseIdle /\ ScanIdle /\ ImgIdle /\ CliIdle
  /\ entry = "api_ocr"
  /\ ApiParsed /\ savers = <<>> /\ loaded = None
  /\ pc = "start"
  /\ blocks \in ApiLongBatches
  /\ image \in Images
  /\ scale = None /\ converted = <<>> /\ ret = None /\ result = None
  /\ ann_blocks = <<>> /\ drawn = <<>> /\ api_blocks = <<>> /\ image_size = None
  /\ api_scale = None /\ annotated_image = None /\ response = None

NextApiLong ==
  \/ ApiNoBlocks
  \/ ApiFetchImage
  \/ ApiFetchImageFails
  \/ ConvertStep
  \/ ConvertReturnToApi
  \/ ApiRender
  \/ ConvertReturnToAnnotate
  \/ DrawStep
  \/ ApiAnnotateFails
  \/ AnnotateReturnToApi
  \/ ApiRespond

SpecApiLong == InitApiLong /\ [][NextApiLong]_vars

\* ---------------------------------------------------------------------------
\* C22: a successful /api/ocr response lists the blocks in parser order with
\* index = position + 1, and when the image was annotated the color of the
\* block with index i is the outline color of the i-th rectangle drawn, for
\* any number of blocks
C22_ResponseMatchesAnnotation ==
  (response # None /\ http = Answer(200, "", "")) =>
    LET listed == Get(response).blocks
    IN  /\ Len(listed) = Len(blocks)
        /\ \A i \in 1..Len(listed) :
              /\ listed[i].index = i
              /\ listed[i].text = blocks[i].text
              /\ listed[i].normalized.x1 = blocks[i].norm_x1
              /\ listed[i].normalized.y1 = blocks[i].norm_y1
              /\ listed[i].normalized.x2 = blocks[i].norm_x2
              /\ listed[i].normalized.y2 = blocks[i].norm_y2
        /\ Get(response).image_with_boxes # None =>
              /\ Len(drawn) = Len(listed)
              /\ \A i \in 1..Len(listed) : listed[i].color = drawn[i].color

\* an annotated response with more blocks than the palette has colors
C22_AnnotatedPastPalette ==
  /\ response # None /\ http = Answer(200, "", "")
  /\ Get(response).image_with_boxes # None
  /\ Len(Get(response).blocks) > Len(COLOR_PALETTE)
  /\ Len(drawn) = Len(Get(response).blocks)

\* ---------------------------------------------------------------------------
\* C23: in a successful /api/ocr response scale_x and scale_y are non-null
\* exactly when image_size is non-null, and, with at least one block, exactly
\* when the blocks carry pixel coordinates; after a failure in the image
\* phase the scale factors are null
C23_MetadataConsistent ==
  (response # None /\ http = Answer(200, "", "")) =>
    LET answer == Get(response)
        listed == answer.blocks
    IN  /\ answer.coord_info.scale # None <=> answer.image_size # None
        /\ Len(listed) > 0 =>
              (answer.image_size # None <=> \A i \in 1..Len(listed) : listed[i].pixel # None)
        /\ FellBack => answer.coord_info.scale = None

\* ---------------------------------------------------------------------------
\* the request carries no image_url, an empty one or only whitespace
UrlMissing(body) ==
  \/ body.kind # "object"
  \/ body.image_url \in { Absent, Null }
  \/ body.image_url.type = "string" /\ Strip(body.image_url.chars) = <<>>

\* the settings file as it can be before a request: no action writes these
SettingsBeforeRequest ==
  { NoFile, FileOf(Dump([image_url |-> Str(<<"o", "l", "d">>),
                         prompt |-> Str(DEFAULT_PROMPT)])) }

\* C24: a request whose image_url is missing, empty or only whitespace is
\* answered 400 "image_url is required" with no OCR call, no image fetch and
\* the settings file as it was; for a non-empty image_url the settings are
\* in the file from before the OCR call on, whatever the call's outcome
C24_RejectedBeforeSideEffects ==
  (entry = "api_ocr" /\ request # None) =>
    LET body == Get(request)
    IN  /\ UrlMissing(body) =>
              /\ pc \in { "done", "raised" } =>
                    http = Answer(400, "", "image_url is required")
              /\ ocr_calls = 0 /\ img_fetches = 0
              /\ settings_file \in SettingsBeforeRequest
        /\ (~UrlMissing(body) /\ ocr_calls > 0) =>
              settings_file =
                FileOf(Dump([image_url |-> Str(Get(image_url)),
                             prompt |-> Str(IF Get(prompt) # <<>> THEN Get(prompt)
                                            ELSE DEFAULT_PROMPT)]))

(***************************************************************************)
(* get_image_size_from_bytes: the JPEG marker scan, lines 258-276          *)
(***************************************************************************)
MaxScanPieces == 3   \* pieces put after FF D8 to make up the data

\* what a JPEG stream is made of: a filler byte, a lone FF, EOI, the
\* standalone markers RST0 and TEM, APP0 segments declaring the lengths 0, 2,
\* 4 (its payload reads FF D9) and 256, an APP0 cut off inside its length, a
\* whole SOF0 header of a 3x2 image and an SOF2 header cut off
ScanPieces ==
  { <<0>>, <<255>>, <<255, 217>>, <<255, 208>>, <<255, 1>>,
    <<255, 224, 0, 0>>, <<255, 224, 0, 2>>, <<255, 224, 0, 4, 255, 217>>,
    <<255, 224, 1, 0>>, <<255, 224, 0>>,
    <<255, 192, 0, 17, 8, 0, 2, 0, 3>>, <<255, 194, 0, 17, 8, 0, 2>> }

ScanPieceLists == UNION { [1..n -> ScanPieces] : n \in 0..MaxScanPieces }

\* the pieces one after the other
RECURSIVE JoinBytes(_)
JoinBytes(ps) ==
  IF ps = <<>> THEN <<>> ELSE Head(ps) \o JoinBytes(Tail(ps))

\* data[i] for the 0-based index i
ByteAt(i) == scan_data[i + 1]

\* struct.unpack('>H', two bytes)
UnpackH(hi, lo) == hi * 256 + lo

\* the markers of line 269, which carry no length
StandaloneMarkers == 208..216 \cup {1}

\* line 258 took the JPEG branch: data[:2] == b'\xff\xd8'; line 259
InitScan ==
  /\ PipeIdle /\ ConvIdle /\ ParseIdle /\ ImgIdle /\ ApiIdle /\ CliIdle /\ SetIdle
  /\ \E ps \in ScanPieceLists : scan_data = <<255, 216>> \o JoinBytes(ps)
  /\ scan_idx = 2 /\ scan_iters = 0 /\ scan_ret = None /\ scan_pc = "loop"

\* what an iteration leaves alone
ScanFrame == UNCHANGED <<scan_data, pipeVars, convVars, parseVars, imgVars, apiVars,
                         cliVars, setVars>>

\* lines 261-263: not FF, idx += 1; continue
ScanSkipByte ==
  /\ scan_pc = "loop" /\ scan_idx < Len(scan_data)
  /\ ByteAt(scan_idx) # 255
  /\ scan_idx' = scan_idx + 1
  /\ scan_iters' = scan_iters + 1
  /\ UNCHANGED <<scan_ret, scan_pc>>
  /\ ScanFrame

\* line 264: data[idx + 1] past the end raises IndexError
ScanMarkerMissing ==
  /\ scan_pc = "loop" /\ scan_idx < Len(scan_data)
  /\ ByteAt(scan_idx) = 255
  /\ scan_idx + 1 >= Len(scan_data)
  /\ scan_pc' = "raised"
  /\ scan_iters' = scan_iters + 1
  /\ UNCHANGED <<scan_idx, scan_ret>>
  /\ ScanFrame

\* lines 265-266 and 276: EOI, break, return None
ScanEndOfImage ==
  /\ scan_pc = "loop" /\ scan_idx + 1 < Len(scan_data)
  /\ ByteAt(scan_idx) = 255
  /\ ByteAt(scan_idx + 1) = 217
  /\ scan_ret' = None
  /\ scan_pc' = "returned"
  /\ scan_iters' = scan_iters + 1
  /\ UNCHANGED scan_idx
  /\ ScanFrame

\* lines 267-269: SOF0 or SOF2; a slice shorter than four bytes makes
\* struct.unpack raise struct.error
ScanStartOfFrame ==
  /\ scan_pc = "loop" /\ scan_idx + 1 < Len(scan_data)
  /\ ByteAt(scan_idx) = 255
  /\ ByteAt(scan_idx + 1) \in {192, 194}
  /\ IF scan_idx + 9 <= Len(scan_data)
     THEN /\ scan_ret' = Some([w |-> UnpackH(ByteAt(scan_idx + 7), ByteAt(scan_idx + 8)),
                               h |-> UnpackH(ByteAt(scan_idx + 5), ByteAt(scan_idx + 6))])
          /\ scan_pc' = "returned"
     ELSE /\ scan_ret' = None
          /\ scan_pc' = "raised"
  /\ scan_iters' = scan_iters + 1
  /\ UNCHANGED scan_idx
  /\ ScanFrame

\* lines 270-271: a marker without a length, idx += 2
ScanStandalone ==
  /\ scan_pc = "loop" /\ scan_idx + 1 < Len(scan_data)
  /\ ByteAt(scan_idx) = 255
  /\ ByteAt(scan_idx + 1) \in StandaloneMarkers
  /\ scan_idx' = scan_idx + 2
  /\ scan_iters' = scan_iters + 1
  /\ UNCHANGED <<scan_ret, scan_pc>>
  /\ ScanFrame

\* the segment is stepped over by its declared length alone
ScanSegmentByLength ==
  /\ scan_pc = "loop" /\ scan_idx + 1 < Len(scan_data)
  /\ ByteAt(scan_idx) = 255
  /\ ByteAt(scan_idx + 1) \notin {217, 192, 194} \cup StandaloneMarkers
  /\ IF scan_idx + 4 <= Len(scan_data)
     THEN /\ scan_idx' = scan_idx + UnpackH(ByteAt(scan_idx + 2), ByteAt(scan_idx + 3))
          /\ UNCHANGED scan_pc
     ELSE /\ scan_pc' = "raised"
          /\ UNCHANGED scan_idx
  /\ scan_iters' = scan_iters + 1
  /\ UNCHANGED scan_ret
  /\ ScanFrame

\* lines 272-274: any other marker, idx += 2 + length; a slice shorter than
\* two bytes makes struct.unpack raise struct.error
ScanSegment ==
  /\ scan_pc = "loop" /\ scan_idx + 1 < Len(scan_data)
  /\ ByteAt(scan_idx) = 255
  /\ ByteAt(scan_idx + 1) \notin {217, 192, 194} \cup StandaloneMarkers
  /\ IF scan_idx + 4 <= Len(scan_data)
     THEN /\ scan_idx' = scan_idx + 2
                           + UnpackH(ByteAt(scan_idx + 2), ByteAt(scan_idx + 3))
          /\ UNCHANGED scan_pc
     ELSE /\ scan_pc' = "raised"
          /\ UNCHANGED scan_idx
  /\ scan_iters' = scan_iters + 1
  /\ UNCHANGED scan_ret
  /\ ScanFrame

\* lines 260 and 276: idx reached len(data), return None
ScanReturnNone ==
  /\ scan_pc = "loop" /\ scan_idx >= Len(scan_data)
  /\ scan_ret' = None
  /\ scan_pc' = "returned"
  /\ UNCHANGED <<scan_idx, scan_iters>>
  /\ ScanFrame

NextScan ==
  \/ ScanSkipByte
  \/ ScanMarkerMissing
  \/ ScanEndOfImage
  \/ ScanStartOfFrame
  \/ ScanStandalone
  \/ ScanSegment
  \/ ScanReturnNone

SpecScan == InitScan /\ [][NextScan]_vars

\* the loop is straight-line code of one thread: an iteration that can run
\* does run
SpecScanFair == SpecScan /\ WF_vars(NextScan)

\* ---------------------------------------------------------------------------
\* C25: the JPEG marker scan terminates for every byte sequence beginning
\* with FF D8: every iteration that stays in the loop leaves idx strictly
\* greater (segments declaring the length 0 included), there are never more
\* than len(data) iterations, and the function eventually returns or raises
C25_ScanTerminates ==
  /\ [][(scan_pc = "loop" /\ scan_pc' = "loop") => scan_idx' > scan_idx]_vars
  /\ [](scan_iters <= Len(scan_data))
  /\ <>(scan_pc \in { "returned", "raised" })

\* the scan stepped over a segment declaring the length 0 and went on to
\* return the dimensions of the frame header
C25_PassedZeroLengthSegment ==
  /\ scan_pc = "returned" /\ scan_ret = Some([w |-> 3, h |-> 2])
  /\ Len(scan_data) >= 6 /\ SubSeq(scan_data, 3, 6) = <<255, 224, 0, 0>>
  /\ scan_iters >= 2

=============================================================================
